---------------------------- MODULE Spec2Model ----------------------------
(***************************************************************************)
(* A model of the email scraping pipeline: the page fetcher with its retry *)
(* loop (scraper.py), the internal-link explorer (scraper.py), the email   *)
(* extractor (email_extractor.py), the social-profile detector             *)
(* (social_scraper.py) and the orchestrator and aggregator (main.py).      *)
(*                                                                         *)
(* Text (URLs, addresses, page text) is a sequence of one-character        *)
(* strings, so that regular-expression search, lower-casing and substring  *)
(* tests are computed character by character.                              *)
(***************************************************************************)
EXTENDS Integers, Sequences, FiniteSets, TLC

VARIABLES
  fetch_req,    \* the arguments and environment of one WebScraper.scrape_url call
  fetch_res,    \* the result dict the call returned and its effects (<<>> before it returns)
  ex_page,      \* the parsed page handed to the extractor
  ex_calls,     \* the extractor entry points called so far on ex_page
  ex_text_out,  \* what extract_emails_from_text returned
  ex_html_out,  \* what extract_emails_from_html returned
  det_links,    \* the links handed to SocialScraper.detect_social_links
  det_out,      \* the dict it returned (<<>> before it returns)
  sum_results,  \* the result records handed to EmailScraper._create_summary
  sum_out,      \* the summary it returned (<<>> before it returns)
  cfg,          \* EmailScraper settings: max_internal_pages, use_social_scraping
  batch,        \* urls, the argument of scrape_from_urls
  pc,           \* where scrape_from_urls stands
  idx,          \* the position in urls of the loop of _scrape_urls (1-based)
  results,      \* results of _scrape_urls, later of scrape_from_urls
  to_visit,     \* get_internal_links: the queue of (url, depth)
  visited,      \* get_internal_links: the visited set
  internal_links,  \* get_internal_links: the list it returns
  max_depth_arg,   \* get_internal_links: its argument max_depth
  selected,     \* _scrape_internal_pages: pages_to_scrape as computed
  pages_to_scrape, \* _scrape_internal_pages: the pages still to scrape
  social_links,    \* _process_social_links: what detect_social_links returned (<<>> before)
  social_queue,    \* scrape_social_emails: the (platform, link) pairs still to scrape
  social_results,  \* scrape_social_emails: results
  social_max,      \* scrape_social_emails: its argument max_per_platform
  trace,        \* history: the fetches and classifications made so far, in order
  failures,     \* history: the fetches that the environment has failed so far
  set_order,    \* the order in which list(set(links)) enumerates in this process
  summary,      \* what scrape_from_urls returned (<<>> before it returns)
  proxies,      \* ProxyHandler.proxies
  current_index,  \* ProxyHandler.current_index
  proxy_stats,  \* ProxyHandler.proxy_stats
  px_clock,     \* time.time(), in probes made so far
  px_returns,   \* history: what the round_robin calls gave since the pool last changed
  px_start,     \* history: current_index when the pool last changed
  fp_call,      \* history: the fetch_free_proxies call made (<<>> before it)
  val_req,      \* the arguments of one _is_valid_email call: email, source_url
  val_res       \* what the call returned (<<>> before it returns)

fetchVars == <<fetch_req, fetch_res>>
extractVars == <<ex_page, ex_calls, ex_text_out, ex_html_out, val_req, val_res>>
detectVars == <<det_links, det_out>>
summaryVars == <<sum_results, sum_out>>
explorerVars == <<to_visit, visited, internal_links, max_depth_arg>>
socialVars == <<social_links, social_queue, social_results, social_max>>
pipelineVars == <<cfg, batch, pc, idx, results, explorerVars, selected,
                  pages_to_scrape, socialVars, trace, failures, set_order,
                  summary>>
proxyVars == <<proxies, current_index, proxy_stats, px_clock, px_returns,
               px_start, fp_call>>
vars == <<fetchVars, extractVars, detectVars, summaryVars, pipelineVars,
          proxyVars>>

-----------------------------------------------------------------------------
(* Bounds of the model *)

\* attempts scripted by the environment for one static fetch
MaxAttempts == 4

\* links in one call of detect_social_links
MaxLinks == 2

\* records in one call of _create_summary
MaxRecords == 3

\* URLs in one batch
MaxBatch == 2

\* the largest max_internal_pages setting
MaxPages == 1

\* fetches the servers fail in one run of the pipeline
MaxFailures == 1

\* links in the lists handed to one call of scrape_social_emails
MaxProfiles == 3

\* tokens in one text handed to extract_emails_from_text
MaxTokens == 2

\* proxies in the pool
MaxPool == 3

\* proxies in one proxy_list
MaxList == 2

\* round_robin calls recorded on one pool
MaxCalls == 6

\* probes made on one handler
MaxProbes == 2

\* the largest max_proxies handed to fetch_free_proxies
MaxWanted == 2

\* the largest max_depth handed to get_internal_links on its own
MaxDepth == 2

-----------------------------------------------------------------------------
(* Text: Python str operations and the character classes of the patterns *)

LowerAlpha == <<"a","b","c","d","e","f","g","h","i","j","k","l","m",
                "n","o","p","q","r","s","t","u","v","w","x","y","z">>
UpperAlpha == <<"A","B","C","D","E","F","G","H","I","J","K","L","M",
                "N","O","P","Q","R","S","T","U","V","W","X","Y","Z">>
Digits == {"0","1","2","3","4","5","6","7","8","9"}

Range(f) == {f[i] : i \in DOMAIN f}

LowerLetters == Range(LowerAlpha)
UpperLetters == Range(UpperAlpha)
Letters == LowerLetters \cup UpperLetters
\* \w of the re module
WordChars == Letters \cup Digits \cup {"_"}
\* \s of the re module
SpaceChars == {" ", "\n", "\t"}


\* str.lower(), one character and a whole string
ToLower == [c \in UpperLetters |-> LowerAlpha[CHOOSE i \in 1 .. 26 : UpperAlpha[i] = c]]
LowerChar(c) == IF c \in UpperLetters THEN ToLower[c] ELSE c
LowerStr(s) == [i \in 1 .. Len(s) |-> LowerChar(s[i])]

\* s[i:] of Python for a 1-based i
Tail_(s, i) == SubSeq(s, i, Len(s))

Max(S) == CHOOSE x \in S : \A y \in S : y <= x
Min(S) == CHOOSE x \in S : \A y \in S : x <= y

\* the literal pat occurs in s at position i
OccursAt(s, i, pat) ==
  /\ i >= 1
  /\ i + Len(pat) - 1 <= Len(s)
  /\ \A k \in 1 .. Len(pat) : s[i + k - 1] = pat[k]

\* pat in s
Contains(s, pat) == \E i \in 1 .. (Len(s) + 1) : OccursAt(s, i, pat)

\* s.startswith(pat), s.endswith(pat)
StartsWith(s, pat) == OccursAt(s, 1, pat)
EndsWith(s, pat) == OccursAt(s, Len(s) - Len(pat) + 1, pat)

\* the first position of pat in s, 0 when absent (str.find, 1-based)
Find(s, pat) ==
  IF Contains(s, pat)
  THEN Min({i \in 1 .. (Len(s) + 1) : OccursAt(s, i, pat)})
  ELSE 0

\* s.split(sep)[0] for a one-character sep
BeforeFirst(s, sep) ==
  IF Contains(s, <<sep>>) THEN SubSeq(s, 1, Find(s, <<sep>>) - 1) ELSE s

\* s.strip(): white space removed at both ends; keep are the positions of
\* the characters that are no white space
StripTo(s, keep) ==
  IF keep = {} THEN <<>> ELSE SubSeq(s, Min(keep), Max(keep))
Strip(s) == StripTo(s, {i \in 1 .. Len(s) : s[i] \notin SpaceChars})

\* the elements of seq at the indices keep, in the order of seq
AtIndices(seq, keep) ==
  [k \in 1 .. Cardinality(keep) |->
     seq[CHOOSE i \in keep : Cardinality({j \in keep : j <= i}) = k]]

\* list(dict.fromkeys(seq)): duplicates dropped, first occurrences kept in order
Dedup(seq) ==
  AtIndices(seq, {i \in 1 .. Len(seq) : \A j \in 1 .. (i - 1) : seq[j] # seq[i]})

\* s with every occurrence of pat removed, left to right: s.replace(pat, '')
RECURSIVE RemoveAll(_, _)
RemoveAll(s, pat) ==
  IF s = <<>> THEN <<>>
  ELSE IF OccursAt(s, 1, pat) THEN RemoveAll(Tail_(s, Len(pat) + 1), pat)
  ELSE <<s[1]>> \o RemoveAll(Tail(s), pat)

\* the part of rest before its first "/", "?" or "#"
UpToPathStart(rest) ==
  SubSeq(rest, 1, Min({i \in 1 .. Len(rest) : rest[i] \in {"/", "?", "#"}}
                      \cup {Len(rest) + 1}) - 1)

\* urlparse(url).netloc: what follows "scheme://" up to the next "/", "?" or "#"
Netloc(url) ==
  IF Contains(url, <<":", "/", "/">>)
  THEN UpToPathStart(Tail_(url, Find(url, <<":", "/", "/">>) + 3))
  ELSE <<>>

-----------------------------------------------------------------------------
(* Email Extractor: email_extractor.py *)

\* [A-Za-z0-9._%+-], [A-Za-z0-9.-] and [A-Z|a-z] of email_pattern
LocalChars == Letters \cup Digits \cup {".", "_", "%", "+", "-"}
DomainChars == Letters \cup Digits \cup {".", "-"}
TldChars == Letters \cup {"|"}

\* \b at the gap before position p (1 .. Len(s) + 1)
WordBoundary(s, p) ==
  (p - 1 >= 1 /\ s[p - 1] \in WordChars) # (p <= Len(s) /\ s[p] \in WordChars)

\* the last index of the longest run of characters of class that starts at
\* `from` (from - 1 when s[from] is not of the class)
RunEnd(s, from, class) ==
  Min({i \in from .. Len(s) : s[i] \notin class} \cup {Len(s) + 1}) - 1

\* the ends t of a TLD that starts after the "." at d + 1: two or more TLD
\* characters, up to the end T of their run, followed by \b
TldEndsUpTo(s, d, T) == {t \in (d + 3) .. T : WordBoundary(s, t + 1)}
TldEnds(s, d) == TldEndsUpTo(s, d, RunEnd(s, d + 2, TldChars))

\* greedy choice: the longest domain that a TLD can follow, then the longest TLD
LastTldEnd(s, ds) == IF ds = {} THEN 0 ELSE Max(TldEnds(s, Max(ds)))

\* the domain starts after the "@" at a and its characters run up to D
DomainMatchEnd(s, a, D) ==
  LastTldEnd(s, {d \in (a + 1) .. (D - 1) : s[d + 1] = "." /\ TldEnds(s, d) # {}})

\* the local part starts at i and a is the position after its run
LocalMatchEnd(s, i, a) ==
  IF a = i \/ a > Len(s) \/ s[a] # "@" THEN 0
  ELSE DomainMatchEnd(s, a, RunEnd(s, a + 1, DomainChars))

\* email_pattern matched at start position i: the index of the last character
\* of the match, 0 when there is none. The local part runs up to the "@"; the
\* domain is taken as long as possible, then the TLD as long as possible,
\* such that a "." precedes the TLD and \b follows it (greedy, backtracking).
EmailMatchEnd(s, i) ==
  IF ~WordBoundary(s, i) THEN 0
  ELSE LocalMatchEnd(s, i, RunEnd(s, i, LocalChars) + 1)

\* email_pattern.findall(s) from position pos on: leftmost matches, not
\* overlapping. starts are the positions from pos on where the pattern matches.
RECURSIVE FindAllFrom(_, _)
TakeMatch(s, i, e) == <<SubSeq(s, i, e)>> \o FindAllFrom(s, e + 1)
TakeLeftmost(s, i) == TakeMatch(s, i, EmailMatchEnd(s, i))
FindAllAmong(s, starts) == IF starts = {} THEN <<>> ELSE TakeLeftmost(s, Min(starts))
FindAllFrom(s, pos) ==
  FindAllAmong(s, {i \in pos .. Len(s) : EmailMatchEnd(s, i) # 0})

FindAllEmails(s) == FindAllFrom(s, 1)

\* the anchor $ of the re module: the end of the string, or just before a final newline
RegexEnds(s) ==
  {Len(s)} \cup (IF s # <<>> /\ s[Len(s)] = "\n" THEN {Len(s) - 1} ELSE {})

\* the anchored grammar with the local part ending before a and the string at e
GrammarFrom(email, a, e) ==
  /\ a > 1 /\ a <= e /\ email[a] = "@"
  /\ \E d \in (a + 1) .. (e - 3) :
       /\ \A k \in (a + 1) .. d : email[k] \in DomainChars
       /\ email[d + 1] = "."
       /\ \A k \in (d + 2) .. e : email[k] \in TldChars

\* re.match(r'^[A-Za-z0-9._%+-]+@[A-Za-z0-9.-]+\.[A-Z|a-z]{2,}$', email)
MatchesEmailGrammar(email) ==
  \E e \in RegexEnds(email) : GrammarFrom(email, RunEnd(email, 1, LocalChars) + 1, e)

\* a pattern <literal>$ searched in the email
SearchAtEnd(email, pat) ==
  \E e \in RegexEnds(email) : e >= Len(pat) /\ OccursAt(email, e - Len(pat) + 1, pat)

\* self.false_positive_patterns: some pattern is found by pattern.search(email)
MatchesFalsePositive(email) ==
  \/ SearchAtEnd(email, <<"e", "x", "a", "m", "p", "l", "e", ".", "c", "o", "m">>)
  \/ SearchAtEnd(email, <<"t", "e", "s", "t", ".", "c", "o", "m">>)
  \/ SearchAtEnd(email, <<"d", "o", "m", "a", "i", "n", ".", "c", "o", "m">>)
  \/ SearchAtEnd(email, <<"e", "m", "a", "i", "l", ".", "c", "o", "m">>)
  \/ Contains(email, <<"u", "s", "e", "r", "@", "l", "o", "c", "a", "l", "h", "o", "s", "t">>)
  \/ Contains(email, <<"a", "d", "m", "i", "n", "@", "l", "o", "c", "a", "l", "h", "o", "s", "t">>)
  \/ Contains(email, <<"r", "o", "o", "t", "@", "l", "o", "c", "a", "l", "h", "o", "s", "t">>)

\* self.trusted_domains
TrustedDomains ==
  {<<"g", "m", "a", "i", "l", ".", "c", "o", "m">>, <<"y", "a", "h", "o", "o", ".", "c", "o", "m">>, <<"h", "o", "t", "m", "a", "i", "l", ".", "c", "o", "m">>, <<"o", "u", "t", "l", "o", "o", "k", ".", "c", "o", "m">>,
   <<"a", "o", "l", ".", "c", "o", "m">>, <<"i", "c", "l", "o", "u", "d", ".", "c", "o", "m">>, <<"p", "r", "o", "t", "o", "n", "m", "a", "i", "l", ".", "c", "o", "m">>, <<"z", "o", "h", "o", ".", "c", "o", "m">>}

\* email.split('@')[1] if '@' in email else ''
DomainOf(email) ==
  IF Contains(email, <<"@">>)
  THEN BeforeFirst(Tail_(email, Find(email, <<"@">>) + 1), "@")
  ELSE <<>>

\* domain == url_domain or domain.endswith('.' + url_domain)
DomainMatchesUrl(domain, url_domain) ==
  domain = url_domain \/ EndsWith(domain, <<".">> \o url_domain)

\* r'^[0-9]+@' searched in the email: r is the end of the run of digits at 1
DigitsThenAt(email, r) == r >= 1 /\ r < Len(email) /\ email[r + 1] = "@"

\* r'@[0-9]+\.[a-z]+$' matched with the "@" at i, the digits ending at r
\* and the string at e
NumericDomainAt(email, i, r, e) ==
  /\ email[i] = "@" /\ r > i /\ r + 2 <= e /\ email[r + 1] = "."
  /\ \A k \in (r + 2) .. e : email[k] \in LowerLetters

\* [a-z]{1,2} from position i, followed by the character c
ShortRunThen(email, i, c) ==
  \E n \in 1 .. 2 :
    /\ i + n <= Len(email) /\ email[i + n] = c
    /\ \A k \in i .. (i + n - 1) : email[k] \in LowerLetters

\* _has_suspicious_patterns
HasSuspiciousPatterns(email) ==
  \/ DigitsThenAt(email, RunEnd(email, 1, Digits))
  \/ \E i \in 1 .. Len(email), e \in RegexEnds(email) :
       NumericDomainAt(email, i, RunEnd(email, i + 1, Digits), e)
  \/ ShortRunThen(email, 1, "@")
  \/ \E i \in 1 .. Len(email) : email[i] = "@" /\ ShortRunThen(email, i + 1, ".")

\* the validator with the check of suspicious patterns applied before it
\* accepts
IsValidEmailChecked(email, source_url) ==
  IF email = <<>> \/ Len(email) < 5 THEN FALSE
  ELSE IF MatchesFalsePositive(email) THEN FALSE
  ELSE IF ~MatchesEmailGrammar(email) THEN FALSE
  ELSE ~HasSuspiciousPatterns(email)

\* _is_valid_email: the rules in the order of the code; source_url <<>> is
\* None. Every path after the grammar check returns True.
IsValidEmail(email, source_url) ==
  IF email = <<>> \/ Len(email) < 5 THEN FALSE
  ELSE IF MatchesFalsePositive(email) THEN FALSE
  ELSE IF ~MatchesEmailGrammar(email) THEN FALSE
  ELSE IF DomainOf(email) \in TrustedDomains THEN TRUE
  ELSE IF /\ source_url # <<>>
          /\ DomainMatchesUrl(DomainOf(email), LowerStr(Netloc(source_url)))
       THEN TRUE
  ELSE TRUE

\* email = email.lower().strip() for every match
LowerAndStrip(matches) == [k \in 1 .. Len(matches) |-> Strip(LowerStr(matches[k]))]

\* extract_emails_from_text
ExtractEmailsFromText(text, source_url) ==
  IF text = <<>> THEN <<>>
  ELSE Dedup(SelectSeq(LowerAndStrip(FindAllEmails(text)),
                       LAMBDA e : IsValidEmail(e, source_url)))

\* the pairs (email, context) of a list of emails found in one context
WithContext(emails, context) ==
  [k \in 1 .. Len(emails) |-> [email |-> emails[k], context |-> context]]

\* href.replace('mailto:', '').split('?')[0].strip()
MailtoAddress(href) == Strip(BeforeFirst(RemoveAll(href, <<"m", "a", "i", "l", "t", "o", ":">>), "?"))

\* the body of the loop of _extract_mailto_emails for one href whose address
\* is email: validated as written, lower-cased when appended
MailtoEmails(href, email, base_url) ==
  IF StartsWith(href, <<"m", "a", "i", "l", "t", "o", ":">>) /\ IsValidEmail(email, base_url)
  THEN WithContext(<<LowerStr(email)>>, <<"m", "a", "i", "l", "t", "o", "_", "l", "i", "n", "k">>)
  ELSE <<>>

\* _extract_mailto_emails over the href values of the <a href> tags, in
\* document order
RECURSIVE ExtractMailtoEmails(_, _)
ExtractMailtoEmails(hrefs, base_url) ==
  IF hrefs = <<>> THEN <<>>
  ELSE MailtoEmails(hrefs[1], MailtoAddress(hrefs[1]), base_url)
       \o ExtractMailtoEmails(Tail(hrefs), base_url)

\* the body of the loops of _extract_data_attribute_emails for one attribute.
\* find_all(attrs=<callable>) is a search on the class attribute, so only
\* tags with a class are visited (tag_has_class).
DataAttributeEmails(a, base_url) ==
  IF a.tag_has_class /\ Contains(a.name, <<"d", "a", "t", "a", "-">>)
  THEN WithContext(ExtractEmailsFromText(a.value, base_url),
                   <<"d", "a", "t", "a", "_", "a", "t", "t", "r", "i", "b", "u", "t", "e", "_">> \o a.name)
  ELSE <<>>

\* _extract_data_attribute_emails over the string attributes of the page, in
\* document order
RECURSIVE ExtractDataAttributeEmails(_, _)
ExtractDataAttributeEmails(attrs, base_url) ==
  IF attrs = <<>> THEN <<>>
  ELSE DataAttributeEmails(attrs[1], base_url)
       \o ExtractDataAttributeEmails(Tail(attrs), base_url)

\* the (email, context) pairs with the duplicates left in
KeepAll(pairs) == pairs

\* the loop that keeps the first (email, context) pair of every email
UniqueByEmail(pairs) ==
  AtIndices(pairs, {i \in 1 .. Len(pairs) :
                      \A j \in 1 .. (i - 1) : pairs[j].email # pairs[i].email})

\* extract_emails_from_html over a parsed page: text is soup.get_text(),
\* hrefs the href values of its <a> tags, attrs its string attributes
ExtractEmailsFromHtml(page, base_url) ==
  UniqueByEmail(WithContext(ExtractEmailsFromText(page.text, base_url), <<"t", "e", "x", "t", "_", "c", "o", "n", "t", "e", "n", "t">>)
                \o ExtractMailtoEmails(page.hrefs, base_url)
                \o ExtractDataAttributeEmails(page.attrs, base_url))

\* emails = [email for email, context in emails_with_context]
EmailsOf(pairs) == [k \in 1 .. Len(pairs) |-> pairs[k].email]

-----------------------------------------------------------------------------
(* Page Fetcher: WebScraper.scrape_url and its two back ends *)

\* WebScraper.__init__ default of max_retries
DefaultMaxRetries == 3

\* outcomes of one requests.get + raise_for_status + parse
\*   ok          2xx response, parsed
\*   http_error  non-2xx: raise_for_status raises HTTPError
\*   conn_error  ConnectionError / Timeout raised by session.get
\*   fault       an exception that is no RequestException (raised while parsing)
AttemptOutcomes == {"ok", "http_error", "conn_error", "fault"}

\* the outcomes that raise a requests.exceptions.RequestException
RequestExceptions == {"http_error", "conn_error"}

\* outcomes of one Selenium navigation
\*   ok, timeout (TimeoutException), webdriver (WebDriverException), fault (other)
SeleniumOutcomes == {"ok", "timeout", "webdriver", "fault"}

RECURSIVE Pow2(_)
Pow2(n) == IF n <= 0 THEN 1 ELSE 2 * Pow2(n - 1)

\* time.sleep(2 ** attempt)
BackoffDelay(attempt) == Pow2(attempt)

\* the loop of _scrape_with_requests from iteration `attempt` on.
\* ret: "success" (the dict returned), "none" (the loop ended and the function
\* fell off its end, returning None) or "raise" (an exception left the function);
\* attempts: GETs issued; delays: the sleeps, in order.
RECURSIVE RequestsLoop(_, _, _, _)
RequestsLoop(attempt, max_retries, outcomes, delays) ==
  IF attempt >= max_retries
  THEN [ret |-> "none", exc |-> "", attempts |-> attempt, delays |-> delays]
  ELSE LET o == outcomes[attempt + 1] IN
       IF o = "ok"
       THEN [ret |-> "success", exc |-> "", attempts |-> attempt + 1, delays |-> delays]
       ELSE IF o \in RequestExceptions
       THEN IF attempt = max_retries - 1
            THEN [ret |-> "raise", exc |-> o, attempts |-> attempt + 1, delays |-> delays]
            ELSE RequestsLoop(attempt + 1, max_retries, outcomes,
                              Append(delays, BackoffDelay(attempt)))
       ELSE [ret |-> "raise", exc |-> o, attempts |-> attempt + 1, delays |-> delays]

ScrapeWithRequests(max_retries, outcomes) ==
  RequestsLoop(0, max_retries, outcomes, <<>>)

\* _scrape_with_selenium: one navigation, no retry
ScrapeWithSelenium(outcome) ==
  CASE outcome = "ok"        -> [ret |-> "success", exc |-> "", attempts |-> 1, delays |-> <<>>]
    [] outcome = "timeout"   -> [ret |-> "raise", exc |-> "Page load timeout", attempts |-> 1, delays |-> <<>>]
    [] outcome = "webdriver" -> [ret |-> "raise", exc |-> "Selenium error", attempts |-> 1, delays |-> <<>>]
    [] OTHER                 -> [ret |-> "raise", exc |-> "fault", attempts |-> 1, delays |-> <<>>]

\* what the except clause of scrape_url sees: result.update(None) raises a
\* TypeError when the back end returned None
BackendOutcome(b) ==
  IF b.ret = "none" THEN [b EXCEPT !.ret = "raise", !.exc = "TypeError"] ELSE b

\* the result dict of scrape_url and the effects of the call, from what the
\* back end did, when the except clause is missing: the exception leaves the call
ResultUncaught(use_selenium, b) ==
  [status   |-> IF b.ret = "success" THEN "success" ELSE "raised",
   error    |-> "None",
   scraping_method |-> IF use_selenium THEN "selenium" ELSE "requests",
   attempts |-> b.attempts,
   delays   |-> b.delays]

\* the result dict of scrape_url (status, error, scraping_method) and the
\* effects of the call (attempts, delays), from what the back end did.
\* error "None" is Python's None.
ResultOf(use_selenium, b) ==
  [status   |-> IF b.ret = "success" THEN "success" ELSE "failed",
   error    |-> IF b.ret = "success" THEN "None" ELSE b.exc,
   scraping_method |-> IF use_selenium THEN "selenium" ELSE "requests",
   attempts |-> b.attempts,
   delays   |-> b.delays]

\* scrape_url: the back end is Selenium when asked for and a driver exists
ScrapeUrl(use_selenium, has_driver, max_retries, outcomes, sel_outcome) ==
  ResultOf(use_selenium,
           BackendOutcome(IF use_selenium /\ has_driver
                          THEN ScrapeWithSelenium(sel_outcome)
                          ELSE ScrapeWithRequests(max_retries, outcomes)))

-----------------------------------------------------------------------------
(* Social Profile Scraper: social_scraper.py *)

\* the keys of self.social_patterns, in dict order
Platforms == <<"linkedin", "instagram", "facebook", "twitter", "youtube">>
PlatformSet == Range(Platforms)

\* self.social_patterns[platform]['patterns']; each pattern is the literal
\* given here followed by the group ([^/\s]+)
SocialPatterns ==
  [linkedin  |-> <<<<"l", "i", "n", "k", "e", "d", "i", "n", ".", "c", "o", "m", "/", "c", "o", "m", "p", "a", "n", "y", "/">>, <<"l", "i", "n", "k", "e", "d", "i", "n", ".", "c", "o", "m", "/", "i", "n", "/">>,
                   <<"l", "i", "n", "k", "e", "d", "i", "n", ".", "c", "o", "m", "/", "s", "h", "o", "w", "c", "a", "s", "e", "/">>>>,
   instagram |-> <<<<"i", "n", "s", "t", "a", "g", "r", "a", "m", ".", "c", "o", "m", "/">>, <<"i", "n", "s", "t", "a", "g", "r", ".", "a", "m", "/">>>>,
   facebook  |-> <<<<"f", "a", "c", "e", "b", "o", "o", "k", ".", "c", "o", "m", "/">>, <<"f", "b", ".", "c", "o", "m", "/">>>>,
   twitter   |-> <<<<"t", "w", "i", "t", "t", "e", "r", ".", "c", "o", "m", "/">>, <<"x", ".", "c", "o", "m", "/">>>>,
   youtube   |-> <<<<"y", "o", "u", "t", "u", "b", "e", ".", "c", "o", "m", "/", "c", "h", "a", "n", "n", "e", "l", "/">>, <<"y", "o", "u", "t", "u", "b", "e", ".", "c", "o", "m", "/", "c", "/">>,
                   <<"y", "o", "u", "t", "u", "b", "e", ".", "c", "o", "m", "/", "u", "s", "e", "r", "/">>>>]

\* re.search of one pattern in s: the literal occurs anywhere in s and the
\* next character exists and is neither "/" nor white space
SearchPattern(s, literal) ==
  \E i \in 1 .. Len(s) :
    /\ OccursAt(s, i, literal)
    /\ i + Len(literal) <= Len(s)
    /\ s[i + Len(literal)] \notin ({"/"} \cup SpaceChars)

\* the inner loop of detect_social_links: some pattern of the platform matches
MatchesPlatform(link_lower, platform) ==
  \E k \in DOMAIN SocialPatterns[platform] :
    SearchPattern(link_lower, SocialPatterns[platform][k])

\* the body of the loop over links: the link is appended to the list of every
\* platform one of whose patterns matches (the break leaves the pattern loop
\* of that platform only)
AddLink(found, link, link_lower) ==
  [p \in PlatformSet |->
     IF MatchesPlatform(link_lower, p) THEN Append(found[p], link) ELSE found[p]]

RECURSIVE DetectFrom(_, _, _)
DetectFrom(links, k, found) ==
  IF k > Len(links) THEN found
  ELSE DetectFrom(links, k + 1, AddLink(found, links[k], LowerStr(links[k])))

\* detect_social_links(links): platform -> the links listed under it
DetectSocialLinks(links) ==
  DetectFrom(links, 1, [p \in PlatformSet |-> <<>>])

\* default of max_per_platform in scrape_social_emails
MaxPerPlatform == 3

\* a slice that keeps the whole list
SliceAll(seq, n) == seq

\* seq[:n] of Python
SliceTo(seq, n) ==
  IF n >= 0 THEN SubSeq(seq, 1, Min({Len(seq), n}))
  ELSE SubSeq(seq, 1, Max({0, Len(seq) + n}))

\* the profiles scrape_social_emails goes through, in order: for each platform
\* in dict order, links[:max_per_platform]
RECURSIVE ProfilesFrom(_, _, _)
ProfilesFrom(found, k, max_per_platform) ==
  IF k > Len(Platforms) THEN <<>>
  ELSE [j \in 1 .. Len(SliceTo(found[Platforms[k]], max_per_platform)) |->
          [platform |-> Platforms[k], url |-> found[Platforms[k]][j]]]
       \o ProfilesFrom(found, k + 1, max_per_platform)

ProfilesToScrape(found, max_per_platform) == ProfilesFrom(found, 1, max_per_platform)

\* any(social_links.values())
AnySocialLinks(found) == \E p \in PlatformSet : found[p] # <<>>

\* the website links of the LinkedIn and Facebook heuristics: hrefs that start
\* with http and do not contain the platform's domain
WebsiteHrefs(hrefs, domain) ==
  {k \in DOMAIN hrefs : StartsWith(hrefs[k], <<"h", "t", "t", "p">>) /\ ~Contains(hrefs[k], domain)}

\* _extract_contact_info: the keys of the dict it returns. page.blocks names the
\* kinds of element the selectors of the heuristics find on the page:
\* "contact" (a contact block), "bio" (a bio with text), "website" (a profile
\* website link with an http href)
ExtractContactInfo(page, platform) ==
  CASE platform = "linkedin" ->
         (IF "contact" \in page.blocks THEN {"raw_contact_text"} ELSE {})
         \cup (IF WebsiteHrefs(page.hrefs, <<"l", "i", "n", "k", "e", "d", "i", "n", ".", "c", "o", "m">>) # {} THEN {"websites"} ELSE {})
    [] platform = "facebook" ->
         (IF "contact" \in page.blocks THEN {"raw_contact_text"} ELSE {})
         \cup (IF WebsiteHrefs(page.hrefs, <<"f", "a", "c", "e", "b", "o", "o", "k", ".", "c", "o", "m">>) # {} THEN {"websites"} ELSE {})
    [] platform = "instagram" ->
         (IF "bio" \in page.blocks THEN {"bio"} ELSE {})
    [] platform = "twitter" ->
         (IF "bio" \in page.blocks THEN {"bio"} ELSE {})
         \cup (IF "website" \in page.blocks THEN {"website"} ELSE {})
    [] OTHER -> {}

\* _scrape_social_profile(platform, url): <<>> is None; scrape_result is what
\* scrape_url returned, emails what extract_emails_from_html found in its html
\* and contact_info what _extract_contact_info found
ScrapeSocialProfile(platform, url, scrape_result, emails, contact_info) ==
  IF scrape_result.status # "success" THEN <<>>
  ELSE IF emails # <<>>
  THEN <<[platform |-> platform, url |-> url, emails |-> emails,
          status |-> "success"]>>
  ELSE IF contact_info # {}
  THEN <<[platform |-> platform, url |-> url, emails |-> <<>>,
          contact_info |-> contact_info, status |-> "partial"]>>
  ELSE <<>>

-----------------------------------------------------------------------------
(* Result Aggregator: EmailScraper._create_summary *)

\* result.get(key, default)
Get(r, key, default) == IF key \in DOMAIN r THEN r[key] ELSE default

\* all_emails: the emails of the records, concatenated in order
RECURSIVE AllEmailsFrom(_, _)
AllEmailsFrom(recs, k) ==
  IF k > Len(recs) THEN <<>>
  ELSE Get(recs[k], "emails", <<>>) \o AllEmailsFrom(recs, k + 1)

AllEmails(recs) == AllEmailsFrom(recs, 1)

\* len([r for r in results if r.get('status') == status])
CountStatus(recs, status) ==
  Cardinality({k \in DOMAIN recs : Get(recs[k], "status", "None") = status})

\* source_counts
SourceCounts(recs) ==
  [t \in {Get(recs[k], "source_type", "unknown") : k \in DOMAIN recs} |->
     Cardinality({k \in DOMAIN recs : Get(recs[k], "source_type", "unknown") = t})]

\* the count of all_emails when duplicates are not merged
CountWithDuplicates(all_emails) == Len(all_emails)

\* len(list(set(all_emails)))
UniqueEmailCount(all_emails) == Cardinality(Range(all_emails))

\* successful_urls / total_urls, not scaled to a percentage
SuccessFraction(successful_urls, total_urls) ==
  IF total_urls > 0 THEN [num |-> successful_urls, den |-> total_urls]
  ELSE [num |-> 0, den |-> 1]

\* (successful_urls / total_urls * 100) if total_urls > 0 else 0, as the
\* fraction num/den
SuccessRate(successful_urls, total_urls) ==
  IF total_urls > 0 THEN [num |-> successful_urls * 100, den |-> total_urls]
  ELSE [num |-> 0, den |-> 1]

SummaryOf(recs, all_emails) ==
  [total_urls_processed |-> Len(recs),
   successful_scrapes   |-> CountStatus(recs, "success"),
   failed_scrapes       |-> CountStatus(recs, "failed"),
   success_rate         |-> SuccessRate(CountStatus(recs, "success"), Len(recs)),
   total_emails_found   |-> Len(all_emails),
   unique_emails_found  |-> UniqueEmailCount(all_emails),
   emails_by_source     |-> SourceCounts(recs)]

\* _create_summary(results, output_files), without the output files, the
\* time stamp and the settings
CreateSummary(recs) == SummaryOf(recs, AllEmails(recs))

-----------------------------------------------------------------------------
(* The web the pipeline runs against *)

UrlAcme     == <<"h", "t", "t", "p", "s", ":", "/", "/", "a", "c", "m", "e", ".", "c", "o", "/">>
UrlAbout    == <<"h", "t", "t", "p", "s", ":", "/", "/", "a", "c", "m", "e", ".", "c", "o", "/", "a", "b", "o", "u", "t">>
UrlBlog     == <<"h", "t", "t", "p", "s", ":", "/", "/", "a", "c", "m", "e", ".", "c", "o", "/", "b", "l", "o", "g">>
UrlTeam     == <<"h", "t", "t", "p", "s", ":", "/", "/", "a", "c", "m", "e", ".", "c", "o", "/", "t", "e", "a", "m">>
UrlShop     == <<"h", "t", "t", "p", "s", ":", "/", "/", "s", "h", "o", "p", ".", "a", "c", "m", "e", ".", "c", "o", "/", "t", "e", "a", "m">>
UrlCompany  == <<"h", "t", "t", "p", "s", ":", "/", "/", "m", "y", "c", "o", "m", "p", "a", "n", "y", ".", "i", "o", "/">>
UrlLinkedIn == <<"h", "t", "t", "p", "s", ":", "/", "/", "w", "w", "w", ".", "l", "i", "n", "k", "e", "d", "i", "n", ".", "c", "o", "m", "/", "c", "o", "m", "p", "a", "n", "y", "/", "a", "c", "m", "e">>
UrlFacebook == <<"h", "t", "t", "p", "s", ":", "/", "/", "f", "b", ".", "c", "o", "m", "/", "a", "c", "m", "e">>
UrlYouTube  == <<"h", "t", "t", "p", "s", ":", "/", "/", "w", "w", "w", ".", "y", "o", "u", "t", "u", "b", "e", ".", "c", "o", "m", "/", "c", "/", "a", "c", "m", "e">>
UrlStore    == <<"h", "t", "t", "p", "s", ":", "/", "/", "s", "t", "o", "r", "e", ".", "i", "o", "/">>
UrlStoreNew == <<"h", "t", "t", "p", "s", ":", "/", "/", "s", "t", "o", "r", "e", ".", "i", "o", "/", "n", "e", "w">>
UrlStoreOld == <<"h", "t", "t", "p", ":", "/", "/", "s", "t", "o", "r", "e", ".", "i", "o", "/", "o", "l", "d">>
UrlStoreCdn == <<"h", "t", "t", "p", "s", ":", "/", "/", "c", "d", "n", ".", "s", "t", "o", "r", "e", ".", "i", "o", "/", "x">>

\* the URLs that are fetched
WebUrls ==
  {UrlAcme, UrlAbout, UrlBlog, UrlTeam, UrlCompany, UrlLinkedIn, UrlFacebook,
   UrlYouTube, UrlStore, UrlStoreNew, UrlStoreOld}

\* the parsed page behind a URL: its text, the href of its anchors in
\* document order, its data attributes and the blocks the contact heuristics find
PageAt(url) ==
  CASE url = UrlAcme ->
         [text |-> <<"W", "e", "l", "c", "o", "m", "e">>,
          hrefs |-> <<<<"/", "a", "b", "o", "u", "t">>, <<"/", "b", "l", "o", "g">>, <<"/", "t", "e", "a", "m">>, UrlShop, UrlLinkedIn,
                      <<"m", "a", "i", "l", "t", "o", ":", "i", "n", "f", "o", "@", "a", "c", "m", "e", ".", "c", "o">>, <<" ", "/", "a", "b", "o", "u", "t", " ">>>>,
          attrs |-> <<>>, blocks |-> {}]
    [] url = UrlAbout ->
         [text |-> <<"M", "a", "i", "l", " ", "i", "n", "f", "o", "@", "a", "c", "m", "e", ".", "c", "o", " ", "n", "o", "w">>,
          hrefs |-> <<UrlFacebook, UrlLinkedIn, <<"/">>>>,
          attrs |-> <<>>, blocks |-> {}]
    [] url = UrlBlog ->
         [text |-> <<"W", "e", "l", "c", "o", "m", "e">>, hrefs |-> <<<<"/", "a", "b", "o", "u", "t">>>>,
          attrs |-> <<>>, blocks |-> {}]
    [] url = UrlTeam ->
         [text |-> <<"M", "a", "i", "l", " ", "h", "r", "@", "a", "c", "m", "e", ".", "c", "o", " ", "n", "o", "w">>, hrefs |-> <<>>,
          attrs |-> <<>>, blocks |-> {}]
    [] url = UrlCompany ->
         [text |-> <<"M", "a", "i", "l", " ", "c", "e", "o", "@", "m", "y", "c", "o", "m", "p", "a", "n", "y", ".", "i", "o", " ", "n", "o", "w">>, hrefs |-> <<>>,
          attrs |-> <<>>, blocks |-> {}]
    [] url = UrlLinkedIn ->
         [text |-> <<"M", "a", "i", "l", " ", "j", "o", "b", "s", "@", "a", "c", "m", "e", ".", "c", "o", " ", "n", "o", "w">>, hrefs |-> <<>>,
          attrs |-> <<>>, blocks |-> {}]
    [] url = UrlFacebook ->
         [text |-> <<"W", "e", "l", "c", "o", "m", "e">>, hrefs |-> <<UrlAcme>>,
          attrs |-> <<>>, blocks |-> {"contact"}]
    [] url = UrlYouTube ->
         [text |-> <<"W", "e", "l", "c", "o", "m", "e">>, hrefs |-> <<UrlAcme>>,
          attrs |-> <<>>, blocks |-> {"contact"}]
    [] url = UrlStore ->
         [text |-> <<"W", "e", "l", "c", "o", "m", "e">>,
          hrefs |-> <<UrlStoreOld, <<"/", "n", "e", "w">>, UrlStoreCdn, UrlCompany>>,
          attrs |-> <<>>, blocks |-> {}]
    [] url = UrlStoreNew ->
         [text |-> <<"W", "e", "l", "c", "o", "m", "e">>, hrefs |-> <<UrlStore>>,
          attrs |-> <<>>, blocks |-> {}]
    [] url = UrlStoreOld ->
         [text |-> <<"W", "e", "l", "c", "o", "m", "e">>, hrefs |-> <<UrlStore>>,
          attrs |-> <<>>, blocks |-> {}]

-----------------------------------------------------------------------------
(* Page Fetcher: the links of a page *)

\* href carries a scheme: a colon before any slash
HasScheme(href) ==
  /\ Contains(href, <<":">>)
  /\ Contains(href, <<"/">>) => Find(href, <<":">>) < Find(href, <<"/">>)

\* scheme://netloc of an absolute URL
Origin(url) ==
  SubSeq(url, 1, Find(url, <<":", "/", "/">>) + 2 + Len(Netloc(url)))

\* urljoin(base_url, href) for an href that is absolute (returned as it is)
\* or that starts with "/" (resolved against the origin of base_url)
UrlJoin(base_url, href) ==
  IF HasScheme(href) THEN href ELSE Origin(base_url) \o href

\* the loop of _extract_links: hrefs stripped, empty ones dropped, resolved
Resolved(hrefs, base_url) ==
  [k \in 1 .. Len(hrefs) |->
     IF Strip(hrefs[k]) = <<>> THEN <<>> ELSE UrlJoin(base_url, Strip(hrefs[k]))]

\* absolute_url.startswith(('http://', 'https://'))
IsHttpUrl(url) == StartsWith(url, <<"h", "t", "t", "p", ":", "/", "/">>) \/ StartsWith(url, <<"h", "t", "t", "p", "s", ":", "/", "/">>)

\* the links kept by the loop, in document order
HttpLinks(resolved) ==
  AtIndices(resolved, {k \in DOMAIN resolved : IsHttpUrl(resolved[k])})

\* the orders in which a set of links may be enumerated: the order of first
\* occurrence on the page, or its reverse
SetOrders == {"forward", "backward"}

Reverse(seq) == [k \in 1 .. Len(seq) |-> seq[Len(seq) + 1 - k]]

\* list(set(links)): each link once, in the order of the process
ListOfSet(links, order) ==
  IF order = "forward" THEN Dedup(links) ELSE Reverse(Dedup(links))

\* _extract_links(soup, base_url)
ExtractLinks(page, base_url, order) ==
  ListOfSet(HttpLinks(Resolved(page.hrefs, base_url)), order)

\* the links of every page of the web, for each order
WebLinks ==
  [order \in SetOrders |-> [u \in WebUrls |-> ExtractLinks(PageAt(u), u, order)]]

\* what extract_emails_from_html(html, url) finds on every page of the web
WebEmails == [u \in WebUrls |-> EmailsOf(ExtractEmailsFromHtml(PageAt(u), u))]

\* what the servers do to the attempts of one fetch
ScriptOk   == [k \in 1 .. MaxAttempts |-> "ok"]
ScriptDown == [k \in 1 .. MaxAttempts |-> "conn_error"]
ScriptSlow == [k \in 1 .. MaxAttempts |-> IF k = 1 THEN "http_error" ELSE "ok"]

\* the result dict of scrape_url(url) as the pipeline uses it, from the call's
\* status and error
ScrapeResult(url, r, order) ==
  [url |-> url, status |-> r.status, error |-> r.error,
   links |-> IF r.status = "success" THEN WebLinks[order][url] ELSE <<>>]

\* self.scraper.scrape_url(url) of the pipeline: the static back end with the
\* default max_retries against the script of the servers
FetchPage(url, script, order) ==
  ScrapeResult(url, ScrapeUrl(FALSE, FALSE, DefaultMaxRetries, script, "ok"), order)

-----------------------------------------------------------------------------
(* Link Graph Explorer: WebScraper.get_internal_links *)

\* max_depth of the call in _scrape_internal_pages
ExploreDepth == 1

\* the links of the seed's netloc, visited or not
LinksToQueueAll(links, base_domain, seen) ==
  AtIndices(links, {k \in DOMAIN links : Netloc(links[k]) = base_domain})

\* the links of a fetched page that are queued: same netloc as the seed and
\* not visited
LinksToQueue(links, base_domain, seen) ==
  AtIndices(links, {k \in DOMAIN links :
                      Netloc(links[k]) = base_domain /\ links[k] \notin seen})

\* to_visit.append((link, depth + 1)) for each of them
Enqueue(queue, links, depth) ==
  queue \o [k \in 1 .. Len(links) |-> [url |-> links[k], depth |-> depth + 1]]

\* to_visit after one visit of (url, depth) that returned scrape_result
QueueAfterVisit(queue, scrape_result, depth, max_depth, base_domain, seen) ==
  IF scrape_result.status = "success" /\ depth < max_depth
  THEN Enqueue(queue, LinksToQueue(scrape_result.links, base_domain, seen), depth)
  ELSE queue

\* internal_links when every visited URL is listed
LinksAfterAnyVisit(found, scrape_result) == Append(found, scrape_result.url)

\* internal_links after that visit
LinksAfterVisit(found, scrape_result) ==
  IF scrape_result.status = "success" THEN Append(found, scrape_result.url) ELSE found

-----------------------------------------------------------------------------
(* Crawl Orchestrator: main.py *)

\* _scrape_single_url when the failure record loses the error of the fetch
ScrapeSingleUrlNoError(url, scrape_result, emails) ==
  IF scrape_result.status # "success"
  THEN [url |-> url, status |-> "failed", emails |-> <<>>,
        error |-> "None", source_type |-> "main"]
  ELSE [url |-> url, status |-> "success", emails |-> emails,
        links |-> scrape_result.links, source_type |-> "main"]

\* _scrape_single_url(url): the record, from what scrape_url returned and what
\* extract_emails_from_html found in its html (source_page, scraping_method
\* and title are left out)
ScrapeSingleUrl(url, scrape_result, emails) ==
  IF scrape_result.status # "success"
  THEN [url |-> url, status |-> "failed", emails |-> <<>>,
        error |-> scrape_result.error, source_type |-> "main"]
  ELSE [url |-> url, status |-> "success", emails |-> emails,
        links |-> scrape_result.links, source_type |-> "main"]

\* result['source_type'] = 'internal'
AsInternal(r) == [r EXCEPT !.source_type = "internal"]

\* result['source_type'] = 'social' for each social result
AsSocial(recs) ==
  [k \in 1 .. Len(recs) |->
     [f \in DOMAIN recs[k] \cup {"source_type"} |->
        IF f = "source_type" THEN "social" ELSE recs[k][f]]]

\* the step after the main record when every main record leads to exploration
AfterMainAlways(main_result) == "explore"

\* if main_result['status'] == 'success': the step after the main record
AfterMain(main_result) ==
  IF main_result.status = "success" THEN "explore" ELSE "next"

RelevantKeywords ==
  {<<"c", "o", "n", "t", "a", "c", "t">>, <<"a", "b", "o", "u", "t">>, <<"t", "e", "a", "m">>, <<"c", "o", "m", "p", "a", "n", "y">>, <<"b", "u", "s", "i", "n", "e", "s", "s">>, <<"s", "e", "r", "v", "i", "c", "e", "s">>,
   <<"p", "r", "o", "d", "u", "c", "t", "s">>, <<"c", "a", "r", "e", "e", "r", "s">>, <<"j", "o", "b", "s">>, <<"c", "a", "r", "e", "e", "r">>, <<"s", "t", "a", "f", "f">>, <<"p", "e", "o", "p", "l", "e">>,
   <<"l", "e", "a", "d", "e", "r", "s", "h", "i", "p">>, <<"m", "a", "n", "a", "g", "e", "m", "e", "n", "t">>}

\* keyword in url_lower for some keyword
IsRelevant(url_lower) == \E kw \in RelevantKeywords : Contains(url_lower, kw)

\* _filter_relevant_pages(urls)
FilterRelevantPages(urls) ==
  AtIndices(urls, {k \in DOMAIN urls : IsRelevant(LowerStr(urls[k]))})

\* the pages when the list is cut to max_internal_pages before it is filtered
PagesCutFirst(found, max_internal_pages) ==
  FilterRelevantPages(SliceTo(found, max_internal_pages))

\* pages_to_scrape = relevant_pages[:self.max_internal_pages]
PagesToScrape(found, max_internal_pages) ==
  SliceTo(FilterRelevantPages(found), max_internal_pages)

\* result.get('links', []) of the records from the k-th on, concatenated
RECURSIVE AllLinksFrom(_, _)
AllLinksFrom(recs, k) ==
  IF k > Len(recs) THEN <<>>
  ELSE Get(recs[k], "links", <<>>) \o AllLinksFrom(recs, k + 1)

\* all_links when the links of the main records alone are collected
PoolMainLinks(recs) ==
  AllLinksFrom(AtIndices(recs, {k \in DOMAIN recs : recs[k].source_type = "main"}), 1)

\* all_links of _process_social_links
PoolLinks(recs) == AllLinksFrom(recs, 1)

\* extract_emails_from_html(scrape_result['html'], url) of a fetched page
EmailsFound(url, scrape_result) ==
  IF scrape_result.status = "success" THEN WebEmails[url] ELSE <<>>

\* _extract_contact_info(result['html'], platform) of a fetched profile
ContactFound(url, platform, scrape_result) ==
  IF scrape_result.status = "success"
  THEN ExtractContactInfo(PageAt(url), platform) ELSE {}

\* defaults of EmailScraper.__init__
DefaultMaxInternalPages == 5

-----------------------------------------------------------------------------
(* Input Loader: FileParser._clean_and_validate_urls *)

\* url.rstrip(chars)
RStrip(s, chars) == SubSeq(s, 1, Max({k \in 1 .. Len(s) : s[k] \notin chars} \cup {0}))

\* 'https://' is put before a URL that starts with neither http:// nor https://
WithProtocol(url) ==
  IF url = <<>> \/ IsHttpUrl(url) THEN url ELSE <<"h", "t", "t", "p", "s", ":", "/", "/">> \o url

\* what follows the first "?" of s
Query(s) == IF Contains(s, <<"?">>) THEN Tail_(s, Find(s, <<"?">>) + 1) ELSE <<>>

\* scheme://netloc + path, and ?query when there is a query: the URL without
\* its fragment (for a URL without path parameters); <<>> when the URL has no
\* netloc and is dropped
NormalizedUrl(url) ==
  IF url = <<>> \/ Netloc(url) = <<>> THEN <<>>
  ELSE BeforeFirst(BeforeFirst(url, "#"), "?")
       \o (IF Query(BeforeFirst(url, "#")) # <<>>
           THEN <<"?">> \o Query(BeforeFirst(url, "#")) ELSE <<>>)

\* the body of the loop of _clean_and_validate_urls up to normalized_url
CleanUrl(url) ==
  NormalizedUrl(WithProtocol(RStrip(Strip(url), {".", ",", ";", ":", "!", "?"})))

-----------------------------------------------------------------------------
(* Proxy Manager: proxy_handler.py *)

\* proxy URLs handed to the handler; P4 has no http or https scheme
P1 == <<"h", "t", "t", "p", ":", "/", "/", "p", "1", ":", "8", "0">>
P2 == <<"h", "t", "t", "p", "s", ":", "/", "/", "p", "2", ":", "8", "0">>
P3 == <<"h", "t", "t", "p", ":", "/", "/", "p", "3", ":", "8", "0">>
P4 == <<"p", "4", ":", "8", "0">>

\* urlparse(proxy).scheme: the lower-cased text before the first ":"
SchemeOf(url) ==
  IF Contains(url, <<":">>) THEN LowerStr(BeforeFirst(url, ":")) ELSE <<>>

\* _validate_proxy_format
ValidateProxyFormat(proxy) ==
  /\ SchemeOf(proxy) \in {<<"h", "t", "t", "p">>, <<"h", "t", "t", "p", "s">>}
  /\ Netloc(proxy) # <<>>

\* the statistics entry add_proxies writes; last_used 0 is None, and the
\* average response time is the fraction num/den
FreshStats ==
  [success_count |-> 0, fail_count |-> 0, last_used |-> 0,
   avg_response_time |-> [num |-> 0, den |-> 1]]

\* self.proxy_stats = {}
NoStats == [a \in {} |-> FreshStats]

\* self.proxy_stats[proxy] = entry
SetStats(stats, proxy, entry) ==
  [a \in DOMAIN stats \cup {proxy} |-> IF a = proxy THEN entry ELSE stats[a]]

\* the body of the loop of add_proxies for one proxy
AddProxy(h, proxy) ==
  IF ValidateProxyFormat(proxy)
  THEN [h EXCEPT !.proxies = Append(h.proxies, proxy),
                 !.proxy_stats = SetStats(h.proxy_stats, proxy, FreshStats)]
  ELSE h

\* add_proxies(proxy_list) from position k on; h is the handler with its
\* fields proxies, current_index, proxy_stats
RECURSIVE AddProxiesFrom(_, _, _)
AddProxiesFrom(h, proxy_list, k) ==
  IF k > Len(proxy_list) THEN h
  ELSE AddProxiesFrom(AddProxy(h, proxy_list[k]), proxy_list, k + 1)

AddProxies(h, proxy_list) == AddProxiesFrom(h, proxy_list, 1)

\* ProxyHandler(proxy_list): the handler after construction
NewHandler(proxy_list) ==
  AddProxies([proxies |-> <<>>, current_index |-> 0, proxy_stats |-> NoStats],
             proxy_list)

\* what a method call gave: the value it returned (<<>> is None, and the
\* booleans are spelled out) or the exception it raised ("" when it returned)
Returned(value) == [value |-> value, raised |-> ""]
Raised(exception) == [value |-> <<>>, raised |-> exception]

\* the cursor of a round-robin handler that never advances
CursorStays(cursor, n) == cursor

\* (self.current_index + 1) % len(self.proxies)
CursorNext(cursor, n) == (cursor + 1) % n

\* the round_robin branch of get_next_proxy: the call's outcome and the next
\* cursor; proxies[current_index] raises IndexError past the end of the list
RoundRobin(h) ==
  IF h.current_index >= Len(h.proxies)
  THEN [out |-> Raised("IndexError"), current_index |-> h.current_index]
  ELSE [out |-> Returned(h.proxies[h.current_index + 1]),
        current_index |-> CursorNext(h.current_index, Len(h.proxies))]

\* a/b < c/d for fractions with positive denominators
FracLess(x, y) == x.num * y.den < y.num * x.den

\* the sort key of best_performance compared: p ranks strictly above q
RanksAbove(sp, sq) ==
  \/ sp.success_count - sp.fail_count > sq.success_count - sq.fail_count
  \/ /\ sp.success_count - sp.fail_count = sq.success_count - sq.fail_count
     /\ FracLess(sp.avg_response_time, sq.avg_response_time)

\* sorted(self.proxies, key=..., reverse=True)[0]: the sort is stable, so it
\* is the first proxy of the list above which no proxy ranks; a proxy of the
\* list without a statistics entry raises KeyError
BestPerformance(h) ==
  IF \E k \in DOMAIN h.proxies : h.proxies[k] \notin DOMAIN h.proxy_stats
  THEN Raised("KeyError")
  ELSE Returned(h.proxies[
         Min({k \in DOMAIN h.proxies :
                \A j \in DOMAIN h.proxies :
                  ~RanksAbove(h.proxy_stats[h.proxies[j]],
                              h.proxy_stats[h.proxies[k]])})])

Strategies == {"round_robin", "random", "best_performance", "first"}

\* the outcome of a call that leaves the cursor where it is
Stay(h, out) == [out |-> out, current_index |-> h.current_index]

\* get_next_proxy(strategy): the call's outcome and the next cursor; pick is
\* the position random.choice draws
GetNextProxy(h, strategy, pick) ==
  IF h.proxies = <<>> THEN Stay(h, Returned(<<>>))
  ELSE CASE strategy = "round_robin" -> RoundRobin(h)
         [] strategy = "random" -> Stay(h, Returned(h.proxies[pick]))
         [] strategy = "best_performance" -> Stay(h, BestPerformance(h))
         [] OTHER -> Stay(h, Returned(h.proxies[1]))

\* the greatest common divisor of two positive numbers
RECURSIVE Gcd(_, _)
Gcd(a, b) == IF b = 0 THEN a ELSE Gcd(b, a % b)

\* num/den in lowest terms
Fraction(num, den) ==
  IF num = 0 THEN [num |-> 0, den |-> 1]
  ELSE [num |-> num \div Gcd(num, den), den |-> den \div Gcd(num, den)]

\* (current_avg * (success_count - 1) + response_time) / success_count
RunningAverage(current_avg, success_count, response_time) ==
  Fraction(current_avg.num * (success_count - 1) + response_time * current_avg.den,
           current_avg.den * success_count)

\* what the probe request of test_proxy may give: status 200 after
\* response_time, another status, or an exception
ResponseTimes == {1, 3}
ProbeOutcomes ==
  {[status |-> "ok", response_time |-> t] : t \in ResponseTimes}
  \cup {[status |-> "bad", response_time |-> 1],
        [status |-> "exception", response_time |-> 1]}

\* the entry of a proxy after a probe with status 200 at time now
AfterSuccess(entry, response_time, now) ==
  [success_count |-> entry.success_count + 1,
   fail_count |-> entry.fail_count,
   last_used |-> now,
   avg_response_time |->
     RunningAverage(entry.avg_response_time, entry.success_count + 1, response_time)]

\* the entry after a probe with another status or an exception
AfterFailure(entry) == [entry EXCEPT !.fail_count = @ + 1]

\* test_proxy(proxy): the statistics after the call and its outcome; without
\* an entry for proxy the update raises KeyError inside the try block and
\* again inside the except block, which lets it out
TestProxy(stats, proxy, outcome, now) ==
  IF proxy \notin DOMAIN stats
  THEN [proxy_stats |-> stats, out |-> Raised("KeyError")]
  ELSE IF outcome.status = "ok"
  THEN [proxy_stats |-> SetStats(stats, proxy,
                                 AfterSuccess(stats[proxy], outcome.response_time, now)),
        out |-> Returned(<<"T", "r", "u", "e">>)]
  ELSE [proxy_stats |-> SetStats(stats, proxy, AfterFailure(stats[proxy])),
        out |-> Returned(<<"F", "a", "l", "s", "e">>)]

\* the fold of test_all_proxies over self.proxies once the probe of
\* proxies[k] gave r: an exception ends the call
RECURSIVE TestAllFrom(_, _, _, _, _, _)
TestAllNext(pool, outcomes, k, now, working, r) ==
  IF r.out.raised # "" THEN r
  ELSE TestAllFrom(pool, r.proxy_stats, outcomes, k + 1, now + 1,
                   IF r.out.value = <<"T", "r", "u", "e">> THEN Append(working, pool[k])
                   ELSE working)

\* test_all_pool from position k on; outcomes[k] is what the probe of
\* pool[k] gives, working the pool found working so far
TestAllFrom(pool, stats, outcomes, k, now, working) ==
  IF k > Len(pool) THEN [proxy_stats |-> stats, out |-> Returned(working)]
  ELSE TestAllNext(pool, outcomes, k, now, working,
                   TestProxy(stats, pool[k], outcomes[k], now))

TestAllProxies(h, outcomes, now) ==
  TestAllFrom(h.proxies, h.proxy_stats, outcomes, 1, now, <<>>)

\* list.remove(proxy): the first occurrence dropped
RemoveFirst(seq, x) ==
  AtIndices(seq, DOMAIN seq \ {Min({k \in DOMAIN seq : seq[k] = x} \cup {Len(seq) + 1})})

\* del self.proxy_stats[proxy]
DelStats(stats, proxy) == [a \in DOMAIN stats \ {proxy} |-> stats[a]]

\* remove_proxy(proxy)
RemoveProxy(h, proxy) ==
  IF proxy \in Range(h.proxies)
  THEN [h EXCEPT !.proxies = RemoveFirst(h.proxies, proxy),
                 !.proxy_stats = IF proxy \in DOMAIN h.proxy_stats
                                 THEN DelStats(h.proxy_stats, proxy) ELSE @]
  ELSE h

-----------------------------------------------------------------------------
(* Proxy Manager: fetch_free_proxies *)

\* sources, in the order of the list
Sources == <<"proxylist_download", "free_proxy_list", "geonode">>

\* the poll of a source noted: the source and the size of the pool when it
\* is polled
Polled(polled, k, h) ==
  Append(polled, [source |-> Sources[k], pool |-> Len(h.proxies)])

\* fetch_free_proxies from source k on, for the handler h and the sources
\* polled so far; feeds[k] is what source k returns
RECURSIVE FetchFreeFrom(_, _, _, _, _)

\* after self.add_proxies(proxies[:max_proxies]) gave h: the loop breaks when
\* the pool holds max_proxies addresses
AfterFeed(h, feeds, k, max_proxies, polled) ==
  IF Len(h.proxies) >= max_proxies THEN [h |-> h, polled |-> polled]
  ELSE FetchFreeFrom(h, feeds, k + 1, max_proxies, polled)

FetchFreeFrom(h, feeds, k, max_proxies, polled) ==
  IF k > Len(Sources) THEN [h |-> h, polled |-> polled]
  ELSE IF feeds[k] # <<>>
  THEN AfterFeed(AddProxies(h, SliceTo(feeds[k], max_proxies)), feeds, k,
                 max_proxies, Polled(polled, k, h))
  ELSE FetchFreeFrom(h, feeds, k + 1, max_proxies, Polled(polled, k, h))

\* fetch_free_proxies(max_proxies): the handler after the call and the
\* sources it polled
FetchFreeProxies(h, feeds, max_proxies) ==
  FetchFreeFrom(h, feeds, 1, max_proxies, <<>>)

-----------------------------------------------------------------------------
(* The state of a component that a specification does not exercise *)

FetchIdle ==
  /\ fetch_req = [use_selenium |-> FALSE, has_driver |-> FALSE,
                  max_retries |-> DefaultMaxRetries,
                  outcomes |-> <<>>, sel_outcome |-> "ok"]
  /\ fetch_res = <<>>

PageIdle ==
  /\ ex_page = [text |-> <<>>, hrefs |-> <<>>, attrs |-> <<>>]
  /\ ex_calls = {}
  /\ ex_text_out = <<>>
  /\ ex_html_out = <<>>

ValidatorIdle ==
  /\ val_req = [email |-> <<>>, source_url |-> <<>>]
  /\ val_res = <<>>

ExtractIdle == PageIdle /\ ValidatorIdle

DetectIdle ==
  /\ det_links = <<>>
  /\ det_out = <<>>

SummaryIdle ==
  /\ sum_results = <<>>
  /\ sum_out = <<>>

PipelineIdle ==
  /\ cfg = [max_internal_pages |-> DefaultMaxInternalPages,
            use_social_scraping |-> TRUE]
  /\ batch = <<>>
  /\ pc = "idle"
  /\ idx = 1
  /\ results = <<>>
  /\ to_visit = <<>>
  /\ visited = {}
  /\ internal_links = <<>>
  /\ max_depth_arg = ExploreDepth
  /\ selected = <<>>
  /\ pages_to_scrape = <<>>
  /\ social_links = <<>>
  /\ social_queue = <<>>
  /\ social_results = <<>>
  /\ social_max = MaxPerPlatform
  /\ trace = <<>>
  /\ failures = 0
  /\ set_order = "forward"
  /\ summary = <<>>

ProxyIdle ==
  /\ proxies = <<>>
  /\ current_index = 0
  /\ proxy_stats = NoStats
  /\ px_clock = 0
  /\ px_returns = <<>>
  /\ px_start = 0
  /\ fp_call = <<>>

-----------------------------------------------------------------------------
(* The fetcher on its own: one scrape_url call per behaviour *)

\* the calls of scrape_url the fetcher specification draws from
FetchRequests ==
  [use_selenium : BOOLEAN, has_driver : BOOLEAN,
   max_retries  : 0 .. (MaxAttempts - 1),
   outcomes     : [1 .. MaxAttempts -> AttemptOutcomes],
   sel_outcome  : SeleniumOutcomes]

FetchInit ==
  /\ fetch_req \in FetchRequests
  /\ fetch_res = <<>>
  /\ ExtractIdle /\ DetectIdle /\ SummaryIdle /\ PipelineIdle /\ ProxyIdle

\* one call of WebScraper.scrape_url
DoScrapeUrl ==
  /\ fetch_res = <<>>
  /\ fetch_res' = <<ScrapeUrl(fetch_req.use_selenium, fetch_req.has_driver,
                              fetch_req.max_retries, fetch_req.outcomes,
                              fetch_req.sel_outcome)>>
  /\ UNCHANGED <<fetch_req, extractVars, detectVars, summaryVars, pipelineVars, proxyVars>>

SpecFetch == FetchInit /\ [][DoScrapeUrl]_vars

-----------------------------------------------------------------------------
(* The extractor on its own: pages drawn from a fixed catalogue *)

\* addresses that occur on the pages, written as they occur
PageAddresses ==
  {<<"i", "n", "f", "o", "@", "a", "c", "m", "e", ".", "c", "o">>, <<"I", "n", "f", "o", "@", "A", "c", "m", "e", ".", "C", "O">>, <<"u", "s", "e", "r", "@", "g", "m", "a", "i", "l", ".", "c", "o", "m">>,
   <<"i", "n", "f", "o", "@", "e", "x", "a", "m", "p", "l", "e", ".", "c", "o", "m">>, <<"I", "n", "f", "o", "@", "E", "x", "a", "m", "p", "l", "e", ".", "C", "O", "M">>,
   <<"b", "o", "b", "@", "t", "e", "s", "t", ".", "c", "o", "m">>, <<"B", "O", "B", "@", "T", "E", "S", "T", ".", "C", "O", "M">>,
   <<"h", "r", "@", "d", "o", "m", "a", "i", "n", ".", "c", "o", "m">>, <<"h", "r", "@", "D", "o", "m", "a", "i", "n", ".", "c", "o", "m">>,
   <<"m", "e", "@", "e", "m", "a", "i", "l", ".", "c", "o", "m">>, <<"M", "E", "@", "E", "M", "A", "I", "L", ".", "c", "o", "m">>,
   <<"u", "s", "e", "r", "@", "l", "o", "c", "a", "l", "h", "o", "s", "t", ".", "l", "a", "n">>, <<"r", "o", "o", "t", "@", "l", "o", "c", "a", "l", "h", "o", "s", "t">>}

NoAddress == <<>>

\* the parsed page that carries one address (or none) in its text, in a
\* mailto link and in a data attribute
MakePage(in_text, in_mailto, in_data, with_query, with_class) ==
  [text  |-> IF in_text = NoAddress THEN <<"W", "e", "l", "c", "o", "m", "e">>
             ELSE <<"M", "a", "i", "l", " ">> \o in_text \o <<" ", "n", "o", "w">>,
   hrefs |-> IF in_mailto = NoAddress THEN <<<<"/", "a", "b", "o", "u", "t">>>>
             ELSE <<<<"/", "a", "b", "o", "u", "t">>, <<"m", "a", "i", "l", "t", "o", ":">> \o in_mailto
                                \o (IF with_query THEN <<"?", "s", "u", "b", "j", "e", "c", "t", "=", "H", "i">> ELSE <<>>)>>,
   attrs |-> IF in_data = NoAddress THEN <<>>
             ELSE <<[name |-> <<"d", "a", "t", "a", "-", "e", "m", "a", "i", "l">>, value |-> in_data,
                     tag_has_class |-> with_class]>>]

\* the pages with an address in at most two of the three places
ExtractPages ==
  LET A == PageAddresses \cup {NoAddress} IN
  {MakePage(t, m, NoAddress, q, TRUE) : t \in A, m \in A, q \in BOOLEAN}
  \cup {MakePage(t, NoAddress, d, FALSE, c) : t \in A, d \in A, c \in BOOLEAN}
  \cup {MakePage(NoAddress, m, d, q, c) : m \in A, d \in A, q \in BOOLEAN, c \in BOOLEAN}

\* the tokens of the texts of test_email_extractor.py
TestTokens ==
  {<<"u", "s", "e", "r", "@">>, <<"@", "d", "o", "m", "a", "i", "n", ".", "c", "o", "m">>, <<"u", "s", "e", "r", ".", "d", "o", "m", "a", "i", "n", ".", "c", "o", "m">>, <<"u", "s", "e", "r", "@", "d", "o", "m", "a", "i", "n">>, <<"@", "u", "s", "e", "r", "n", "a", "m", "e">>,
   <<"u", "s", "e", "r", "@", "d", "o", "m", "a", "i", "n", ".", "c", "o", "m">>, <<"u", "s", "e", "r", "+", "t", "a", "g", "@", "d", "o", "m", "a", "i", "n", ".", "c", "o", "m">>, <<"u", "s", "e", "r", "-", "n", "a", "m", "e", "@", "d", "o", "m", "a", "i", "n", ".", "c", "o", "m">>,
   <<"j", "o", "h", "n", "@", "e", "x", "a", "m", "p", "l", "e", ".", "c", "o", "m">>, <<"s", "u", "p", "p", "o", "r", "t", "@", "t", "e", "s", "t", ".", "o", "r", "g">>, <<"u", "s", "e", "r", ".", "n", "a", "m", "e", "@", "d", "o", "m", "a", "i", "n", ".", "o", "r", "g">>}

\* a text that lists the tokens
RECURSIVE ListTokens(_)
ListTokens(tokens) ==
  IF tokens = <<>> THEN <<" ", "o", "n", " ", "T", "w", "i", "t", "t", "e", "r">>
  ELSE <<",", " ">> \o Head(tokens) \o ListTokens(Tail(tokens))

\* the pages whose text lists up to MaxTokens tokens
TokenPages ==
  {[text |-> <<"C", "o", "n", "t", "a", "c", "t">> \o ListTokens(tokens), hrefs |-> <<>>, attrs |-> <<>>,
    tokens |-> tokens] :
     tokens \in UNION {[1 .. n -> TestTokens] : n \in 1 .. MaxTokens}}

ExtractBaseUrl == <<"h", "t", "t", "p", "s", ":", "/", "/", "a", "c", "m", "e", ".", "c", "o", "/">>

ExtractInit ==
  /\ ex_page \in ExtractPages \cup TokenPages
  /\ ex_calls = {}
  /\ ex_text_out = <<>>
  /\ ex_html_out = <<>>
  /\ ValidatorIdle
  /\ FetchIdle /\ DetectIdle /\ SummaryIdle /\ PipelineIdle /\ ProxyIdle

\* one call of extract_emails_from_text on the page's text
CallExtractText ==
  /\ "text" \notin ex_calls
  /\ ex_calls' = ex_calls \cup {"text"}
  /\ ex_text_out' = ExtractEmailsFromText(ex_page.text, ExtractBaseUrl)
  /\ UNCHANGED <<ex_page, ex_html_out, val_req, val_res, fetchVars, detectVars, summaryVars, pipelineVars, proxyVars>>

\* one call of extract_emails_from_html on the page
CallExtractHtml ==
  /\ "html" \notin ex_calls
  /\ ex_calls' = ex_calls \cup {"html"}
  /\ ex_html_out' = ExtractEmailsFromHtml(ex_page, ExtractBaseUrl)
  /\ UNCHANGED <<ex_page, ex_text_out, val_req, val_res, fetchVars, detectVars, summaryVars, pipelineVars, proxyVars>>

\* a second call of extract_emails_from_html on the same page
CallExtractHtmlAgain ==
  /\ "html" \in ex_calls
  /\ "again" \notin ex_calls
  /\ ex_calls' = ex_calls \cup {"again"}
  /\ ex_html_out' = ExtractEmailsFromHtml(ex_page, ExtractBaseUrl)
  /\ UNCHANGED <<ex_page, ex_text_out, val_req, val_res, fetchVars, detectVars, summaryVars, pipelineVars, proxyVars>>

ExtractNext == CallExtractText \/ CallExtractHtml \/ CallExtractHtmlAgain

SpecExtract == ExtractInit /\ [][ExtractNext]_vars

-----------------------------------------------------------------------------
(* The validator on its own: one _is_valid_email call per behaviour *)

\* candidate addresses: the tokens of the tests and addresses on the domain
\* of the source page, on a subdomain of it, on another domain, on a trusted
\* provider, on placeholder domains, with short or numeric parts, and short
\* or malformed strings
Candidates ==
  TestTokens \cup
  {<<>>, <<"a", "@", "b", "c">>, <<"a", "@", "b", ".", "c">>, <<"a", "@", "b", ".", "c", "o">>, <<"a", "b", "@", "a", "c", "m", "e", ".", "c", "o">>, <<"1", "@", "a", "c", "m", "e", ".", "c", "o">>, <<"x", "1", "@", "1", "2", ".", "c", "o">>,
   <<"i", "n", "f", "o", "@", "a", "c", "m", "e", ".", "c", "o">>, <<"i", "n", "f", "o", "@", "m", "a", "i", "l", ".", "a", "c", "m", "e", ".", "c", "o">>, <<"i", "n", "f", "o", "@", "o", "t", "h", "e", "r", ".", "o", "r", "g">>, <<"I", "n", "f", "o", "@", "O", "t", "h", "e", "r", ".", "O", "R", "G">>,
   <<"u", "s", "e", "r", "@", "g", "m", "a", "i", "l", ".", "c", "o", "m">>, <<"j", "o", "@", "g", "m", "a", "i", "l", ".", "c", "o", "m">>, <<"u", "s", "e", "r", "@", "l", "o", "c", "a", "l", "h", "o", "s", "t", ".", "o", "r", "g">>, <<"s", "a", "l", "e", "s", "@", "c", "o", "n", "t", "e", "s", "t", ".", "c", "o", "m">>,
   <<"b", "o", "b", "@", "f", "r", "e", "e", "d", "o", "m", "a", "i", "n", ".", "c", "o", "m">>,
   <<"i", "n", "f", "o", "@", "a", "c", "m", "e">>, <<"i", "n", " ", "f", "o", "@", "a", "c", "m", "e", ".", "c", "o">>, <<"i", "n", "f", "o", "@", "a", "c", "m", "e", ".", "c", "o">> \o <<"\n">>}

\* source_url: None, the page of acme.co, a page of another site, a page of a
\* trusted provider
SourceUrls == {<<>>, <<"h", "t", "t", "p", "s", ":", "/", "/", "a", "c", "m", "e", ".", "c", "o", "/">>, <<"h", "t", "t", "p", "s", ":", "/", "/", "o", "t", "h", "e", "r", ".", "o", "r", "g", "/">>, <<"h", "t", "t", "p", "s", ":", "/", "/", "g", "m", "a", "i", "l", ".", "c", "o", "m", "/">>}

ValidatorInit ==
  /\ val_req \in [email : Candidates, source_url : SourceUrls]
  /\ val_res = <<>>
  /\ PageIdle
  /\ FetchIdle /\ DetectIdle /\ SummaryIdle /\ PipelineIdle /\ ProxyIdle

\* one call of _is_valid_email
CallIsValidEmail ==
  /\ val_res = <<>>
  /\ val_res' = <<IsValidEmail(val_req.email, val_req.source_url)>>
  /\ UNCHANGED <<val_req, ex_page, ex_calls, ex_text_out, ex_html_out,
                 fetchVars, detectVars, summaryVars, pipelineVars, proxyVars>>

SpecValidator == ValidatorInit /\ [][CallIsValidEmail]_vars

-----------------------------------------------------------------------------
(* The social detector on its own: detect_social_links on drawn lists *)

\* links a page may carry
DetectLinks ==
  {<<"h", "t", "t", "p", "s", ":", "/", "/", "w", "w", "w", ".", "l", "i", "n", "k", "e", "d", "i", "n", ".", "c", "o", "m", "/", "c", "o", "m", "p", "a", "n", "y", "/", "a", "c", "m", "e">>, <<"h", "t", "t", "p", "s", ":", "/", "/", "W", "W", "W", ".", "L", "i", "n", "k", "e", "d", "I", "n", ".", "c", "o", "m", "/", "i", "n", "/", "B", "o", "b">>,
   <<"h", "t", "t", "p", "s", ":", "/", "/", "a", "c", "m", "e", ".", "c", "o", "m", "/", "c", "o", "n", "t", "a", "c", "t">>, <<"h", "t", "t", "p", "s", ":", "/", "/", "w", "w", "w", ".", "i", "n", "s", "t", "a", "g", "r", "a", "m", ".", "c", "o", "m", "/", "a", "c", "m", "e">>,
   <<"h", "t", "t", "p", "s", ":", "/", "/", "f", "b", ".", "c", "o", "m", "/", "a", "c", "m", "e">>, <<"h", "t", "t", "p", "s", ":", "/", "/", "x", ".", "c", "o", "m", "/", "a", "c", "m", "e">>, <<"h", "t", "t", "p", "s", ":", "/", "/", "t", "w", "i", "t", "t", "e", "r", ".", "c", "o", "m", "/">>,
   <<"h", "t", "t", "p", "s", ":", "/", "/", "w", "w", "w", ".", "y", "o", "u", "t", "u", "b", "e", ".", "c", "o", "m", "/", "c", "/", "a", "c", "m", "e">>, <<"h", "t", "t", "p", "s", ":", "/", "/", "y", "o", "u", "t", "u", "b", "e", ".", "c", "o", "m", "/", "w", "a", "t", "c", "h", "?", "v", "=", "1">>,
   <<"h", "t", "t", "p", "s", ":", "/", "/", "n", "e", "t", "f", "l", "i", "x", ".", "c", "o", "m", "/", "t", "i", "t", "l", "e">>,
   <<"h", "t", "t", "p", "s", ":", "/", "/", "w", "w", "w", ".", "f", "a", "c", "e", "b", "o", "o", "k", ".", "c", "o", "m", "/", "s", "h", "a", "r", "e", "r", ".", "p", "h", "p", "?", "u", "=", "h", "t", "t", "p", "s", ":", "/", "/", "t", "w", "i", "t", "t", "e", "r", ".", "c", "o", "m", "/", "a", "c", "m", "e">>}

DetectInit ==
  /\ det_links \in UNION {[1 .. n -> DetectLinks] : n \in 0 .. MaxLinks}
  /\ det_out = <<>>
  /\ FetchIdle /\ ExtractIdle /\ SummaryIdle /\ PipelineIdle /\ ProxyIdle

\* one call of detect_social_links
CallDetect ==
  /\ det_out = <<>>
  /\ det_out' = <<DetectSocialLinks(det_links)>>
  /\ UNCHANGED <<det_links, fetchVars, extractVars, summaryVars, pipelineVars, proxyVars>>

SpecSocial == DetectInit /\ [][CallDetect]_vars

-----------------------------------------------------------------------------
(* The aggregator on its own: _create_summary on drawn record lists *)

MailA == <<"a", "@", "b", ".", "c", "o">>
MailB == <<"c", "@", "d", ".", "i", "o">>

\* records of the shapes the pipeline produces
SummaryRecords ==
  {[url |-> UrlAcme, status |-> "success", emails |-> <<MailA>>,
    links |-> <<>>, source_type |-> "main"],
   [url |-> UrlAcme, status |-> "success", emails |-> <<MailA, MailB>>,
    links |-> <<>>, source_type |-> "main"],
   [url |-> UrlAcme, status |-> "success", emails |-> <<>>,
    links |-> <<>>, source_type |-> "main"],
   [url |-> UrlAcme, status |-> "failed", emails |-> <<>>,
    error |-> "conn_error", source_type |-> "main"],
   [url |-> UrlAbout, status |-> "success", emails |-> <<MailB>>,
    links |-> <<>>, source_type |-> "internal"],
   [url |-> UrlAbout, status |-> "failed", emails |-> <<>>,
    error |-> "conn_error", source_type |-> "internal"],
   [platform |-> "linkedin", url |-> UrlLinkedIn, status |-> "success",
    emails |-> <<MailA>>, source_type |-> "social"],
   [platform |-> "facebook", url |-> UrlFacebook, status |-> "partial",
    emails |-> <<>>, contact_info |-> {"websites"}, source_type |-> "social"]}

SummaryInit ==
  /\ sum_results \in UNION {[1 .. n -> SummaryRecords] : n \in 0 .. MaxRecords}
  /\ sum_out = <<>>
  /\ FetchIdle /\ ExtractIdle /\ DetectIdle /\ PipelineIdle /\ ProxyIdle

\* one call of _create_summary
CallCreateSummary ==
  /\ sum_out = <<>>
  /\ sum_out' = <<CreateSummary(sum_results)>>
  /\ UNCHANGED <<sum_results, fetchVars, extractVars, detectVars, pipelineVars, proxyVars>>

SpecSummary == SummaryInit /\ [][CallCreateSummary]_vars

-----------------------------------------------------------------------------
(* The pipeline: one call of EmailScraper.scrape_from_urls *)

SeedUrls == {UrlAcme, UrlCompany}

Batches == UNION {[1 .. n -> SeedUrls] : n \in 0 .. MaxBatch}

Settings ==
  [max_internal_pages : 0 .. MaxPages, use_social_scraping : BOOLEAN]

\* the scripts the servers may follow for the next fetch
FetchScripts(failed_so_far) ==
  {ScriptOk, ScriptSlow} \cup (IF failed_so_far < MaxFailures THEN {ScriptDown} ELSE {})

Failed(scrape_result) == IF scrape_result.status = "success" THEN 0 ELSE 1

Event(kind, url, seed, scrape_result) ==
  [kind |-> kind, url |-> url, seed |-> seed,
   ok |-> scrape_result.status = "success"]

\* history: a fetch of the explorer, with the depth of the entry it took
\* from the queue
ExploreEvent(cur, seed, scrape_result) ==
  [kind |-> "explore", url |-> cur.url, seed |-> seed,
   ok |-> scrape_result.status = "success", depth |-> cur.depth]

Init ==
  /\ cfg \in Settings
  /\ batch \in Batches
  /\ pc = "main"
  /\ idx = 1
  /\ results = <<>>
  /\ to_visit = <<>>
  /\ visited = {}
  /\ internal_links = <<>>
  /\ max_depth_arg = ExploreDepth
  /\ selected = <<>>
  /\ pages_to_scrape = <<>>
  /\ social_links = <<>>
  /\ social_queue = <<>>
  /\ social_results = <<>>
  /\ social_max = MaxPerPlatform
  /\ trace = <<>>
  /\ failures = 0
  /\ set_order \in SetOrders
  /\ summary = <<>>
  /\ FetchIdle /\ ExtractIdle /\ DetectIdle /\ SummaryIdle /\ ProxyIdle

\* _scrape_urls after main_result was appended: _scrape_internal_pages starts
\* its get_internal_links call, or the loop goes on to the next URL
MainRecorded(main_result) ==
  /\ results' = Append(results, main_result)
  /\ IF AfterMain(main_result) = "explore"
     THEN /\ pc' = "explore"
          /\ idx' = idx
          /\ to_visit' = <<[url |-> batch[idx], depth |-> 0]>>
          /\ visited' = {}
          /\ internal_links' = <<>>
          /\ max_depth_arg' = ExploreDepth
     ELSE /\ pc' = "main"
          /\ idx' = idx + 1
          /\ UNCHANGED explorerVars

MainStep(url, scrape_result) ==
  /\ MainRecorded(ScrapeSingleUrl(url, scrape_result, EmailsFound(url, scrape_result)))
  /\ trace' = Append(trace, Event("main", url, idx, scrape_result))
  /\ failures' = failures + Failed(scrape_result)

\* one iteration of the loop of _scrape_urls up to the main record
MainFetch ==
  /\ pc = "main"
  /\ idx <= Len(batch)
  /\ \E script \in FetchScripts(failures) :
       MainStep(batch[idx], FetchPage(batch[idx], script, set_order))
  /\ UNCHANGED <<cfg, batch, set_order, selected, pages_to_scrape, socialVars, summary,
                 fetchVars, extractVars, detectVars, summaryVars, proxyVars>>

ExploreVisit(cur, scrape_result) ==
  /\ visited' = visited \cup {cur.url}
  /\ internal_links' = LinksAfterVisit(internal_links, scrape_result)
  /\ to_visit' = QueueAfterVisit(Tail(to_visit), scrape_result, cur.depth,
                                 max_depth_arg, Netloc(batch[idx]),
                                 visited \cup {cur.url})
  /\ trace' = Append(trace, ExploreEvent(cur, idx, scrape_result))
  /\ failures' = failures + Failed(scrape_result)

\* one iteration of the while loop of get_internal_links
ExploreStep ==
  /\ pc = "explore"
  /\ to_visit # <<>>
  /\ IF Head(to_visit).url \in visited \/ Head(to_visit).depth > max_depth_arg
     THEN /\ to_visit' = Tail(to_visit)
          /\ UNCHANGED <<visited, internal_links, trace, failures>>
     ELSE \E script \in FetchScripts(failures) :
            \E scrape_result \in {FetchPage(Head(to_visit).url, script, set_order)} :
              ExploreVisit(Head(to_visit), scrape_result)
  /\ UNCHANGED <<cfg, batch, set_order, pc, idx, results, selected, pages_to_scrape,
                 max_depth_arg, socialVars, summary,
                 fetchVars, extractVars, detectVars, summaryVars, proxyVars>>

\* get_internal_links returns; _filter_relevant_pages and the cut to
\* max_internal_pages
SelectPages ==
  /\ pc = "explore"
  /\ to_visit = <<>>
  /\ selected' = PagesToScrape(internal_links, cfg.max_internal_pages)
  /\ pages_to_scrape' = selected'
  /\ pc' = "internal"
  /\ UNCHANGED <<cfg, batch, set_order, idx, results, explorerVars, socialVars, trace,
                 failures, summary,
                 fetchVars, extractVars, detectVars, summaryVars, proxyVars>>

InternalStep(url, scrape_result) ==
  /\ results' = Append(results,
                       AsInternal(ScrapeSingleUrl(url, scrape_result,
                                                  EmailsFound(url, scrape_result))))
  /\ trace' = Append(trace, Event("internal", url, idx, scrape_result))
  /\ failures' = failures + Failed(scrape_result)

\* one iteration of the loop over pages_to_scrape
InternalFetch ==
  /\ pc = "internal"
  /\ pages_to_scrape # <<>>
  /\ \E script \in FetchScripts(failures) :
       InternalStep(Head(pages_to_scrape), FetchPage(Head(pages_to_scrape), script, set_order))
  /\ pages_to_scrape' = Tail(pages_to_scrape)
  /\ UNCHANGED <<cfg, batch, set_order, pc, idx, explorerVars, selected, socialVars, summary,
                 fetchVars, extractVars, detectVars, summaryVars, proxyVars>>

\* _scrape_internal_pages returns; the loop of _scrape_urls goes on
FinishSeed ==
  /\ pc = "internal"
  /\ pages_to_scrape = <<>>
  /\ pc' = "main"
  /\ idx' = idx + 1
  /\ UNCHANGED <<cfg, batch, set_order, results, explorerVars, selected, pages_to_scrape,
                 socialVars, trace, failures, summary,
                 fetchVars, extractVars, detectVars, summaryVars, proxyVars>>

\* _scrape_urls returns; if self.use_social_scraping
EndBatch ==
  /\ pc = "main"
  /\ idx > Len(batch)
  /\ pc' = IF cfg.use_social_scraping THEN "social" ELSE "summary"
  /\ UNCHANGED <<cfg, batch, set_order, idx, results, explorerVars, selected, pages_to_scrape,
                 socialVars, trace, failures, summary,
                 fetchVars, extractVars, detectVars, summaryVars, proxyVars>>

Classified(found) ==
  /\ social_links' = <<found>>
  /\ social_queue' = IF AnySocialLinks(found)
                     THEN ProfilesToScrape(found, social_max) ELSE <<>>

\* _process_social_links up to the call of scrape_social_emails
ClassifySocial ==
  /\ pc = "social"
  /\ Classified(DetectSocialLinks(PoolLinks(results)))
  /\ trace' = Append(trace, [kind |-> "classify", url |-> <<>>, seed |-> 0, ok |-> TRUE])
  /\ pc' = "profiles"
  /\ UNCHANGED <<cfg, batch, set_order, idx, results, explorerVars, selected, pages_to_scrape,
                 social_results, social_max, failures, summary,
                 fetchVars, extractVars, detectVars, summaryVars, proxyVars>>

SocialStep(profile, scrape_result) ==
  /\ social_results' =
       social_results \o
       ScrapeSocialProfile(profile.platform, profile.url, scrape_result,
                           EmailsFound(profile.url, scrape_result),
                           ContactFound(profile.url, profile.platform, scrape_result))
  /\ trace' = Append(trace, Event("social", profile.url, 0, scrape_result))
  /\ failures' = failures + Failed(scrape_result)

\* one iteration of the loops of scrape_social_emails
SocialFetch ==
  /\ pc = "profiles"
  /\ social_queue # <<>>
  /\ \E script \in FetchScripts(failures) :
       SocialStep(Head(social_queue), FetchPage(Head(social_queue).url, script, set_order))
  /\ social_queue' = Tail(social_queue)
  /\ UNCHANGED <<cfg, batch, set_order, pc, idx, results, explorerVars, selected,
                 pages_to_scrape, social_links, social_max, summary,
                 fetchVars, extractVars, detectVars, summaryVars, proxyVars>>

\* scrape_social_emails and _process_social_links return;
\* results.extend(social_results)
FinishSocial ==
  /\ pc = "profiles"
  /\ social_queue = <<>>
  /\ results' = results \o AsSocial(social_results)
  /\ pc' = "summary"
  /\ UNCHANGED <<cfg, batch, set_order, idx, explorerVars, selected, pages_to_scrape,
                 socialVars, trace, failures, summary,
                 fetchVars, extractVars, detectVars, summaryVars, proxyVars>>

\* _create_summary; scrape_from_urls returns
Summarise ==
  /\ pc = "summary"
  /\ summary' = <<CreateSummary(results)>>
  /\ pc' = "done"
  /\ UNCHANGED <<cfg, batch, set_order, idx, results, explorerVars, selected, pages_to_scrape,
                 socialVars, trace, failures,
                 fetchVars, extractVars, detectVars, summaryVars, proxyVars>>

Next ==
  \/ MainFetch
  \/ ExploreStep
  \/ SelectPages
  \/ InternalFetch
  \/ FinishSeed
  \/ EndBatch
  \/ ClassifySocial
  \/ SocialFetch
  \/ FinishSocial
  \/ Summarise

Spec == Init /\ [][Next]_vars

-----------------------------------------------------------------------------
(* The explorer on its own: one call of WebScraper.get_internal_links *)

\* the url argument of the call: any page of the web
ExplorerSeeds == WebUrls

ExplorerInit ==
  /\ cfg = [max_internal_pages |-> DefaultMaxInternalPages,
            use_social_scraping |-> TRUE]
  /\ batch \in {<<u>> : u \in ExplorerSeeds}
  /\ pc = "explore"
  /\ idx = 1
  /\ results = <<>>
  /\ to_visit = <<[url |-> batch[1], depth |-> 0]>>
  /\ visited = {}
  /\ internal_links = <<>>
  /\ max_depth_arg \in 0 .. MaxDepth
  /\ selected = <<>>
  /\ pages_to_scrape = <<>>
  /\ social_links = <<>>
  /\ social_queue = <<>>
  /\ social_results = <<>>
  /\ social_max = MaxPerPlatform
  /\ trace = <<>>
  /\ failures = 0
  /\ set_order \in SetOrders
  /\ summary = <<>>
  /\ FetchIdle /\ ExtractIdle /\ DetectIdle /\ SummaryIdle /\ ProxyIdle

SpecExplorer == ExplorerInit /\ [][ExploreStep]_vars

\* the while loop of get_internal_links keeps running while to_visit is not
\* empty
SpecExplorerFair == SpecExplorer /\ WF_vars(ExploreStep)

-----------------------------------------------------------------------------
(* The social scraper on its own: one call of scrape_social_emails on the   *)
(* classification of a drawn list of profile links                          *)

ProfileUrls == {UrlLinkedIn, UrlFacebook, UrlYouTube}

ProfileLinkLists == UNION {[1 .. n -> ProfileUrls] : n \in 0 .. MaxProfiles}

\* scrape_social_emails(found, limit) is entered
Entered(found, limit) ==
  /\ social_links = <<found>>
  /\ social_max = limit
  /\ social_queue = ProfilesToScrape(found, limit)

ProfilesInit ==
  /\ \E links \in ProfileLinkLists, limit \in 0 .. MaxProfiles :
       Entered(DetectSocialLinks(links), limit)
  /\ social_results = <<>>
  /\ pc = "profiles"
  /\ cfg = [max_internal_pages |-> DefaultMaxInternalPages,
            use_social_scraping |-> TRUE]
  /\ batch = <<>>
  /\ idx = 1
  /\ results = <<>>
  /\ to_visit = <<>>
  /\ visited = {}
  /\ internal_links = <<>>
  /\ max_depth_arg = ExploreDepth
  /\ selected = <<>>
  /\ pages_to_scrape = <<>>
  /\ trace = <<>>
  /\ failures = 0
  /\ set_order = "forward"
  /\ summary = <<>>
  /\ FetchIdle /\ ExtractIdle /\ DetectIdle /\ SummaryIdle /\ ProxyIdle

ProfilesNext ==
  \/ SocialFetch
  \/ FinishSocial

SpecProfiles == ProfilesInit /\ [][ProfilesNext]_vars

-----------------------------------------------------------------------------
(* The proxy manager on its own: a ProxyHandler and the calls made on it,  *)
(* once for its rotation and once for its statistics                      *)

AllProxies == {P1, P2, P3, P4}

\* the proxy_list arguments of the constructor and of add_proxies
ProxyLists == UNION {[1 .. n -> AllProxies] : n \in 0 .. MaxList}

\* the handler object
Handler ==
  [proxies |-> proxies, current_index |-> current_index, proxy_stats |-> proxy_stats]

Constructed(h) ==
  /\ proxies = h.proxies
  /\ current_index = h.current_index
  /\ proxy_stats = h.proxy_stats

ProxyInit ==
  /\ \E proxy_list \in ProxyLists : Constructed(NewHandler(proxy_list))
  /\ px_clock = 0
  /\ px_returns = <<>>
  /\ px_start = 0
  /\ fp_call = <<>>
  /\ FetchIdle /\ ExtractIdle /\ DetectIdle /\ SummaryIdle /\ PipelineIdle

\* the handler's pool becomes new_proxies: the round-robin history starts
\* again when the list changed
PoolBecomes(new_proxies) ==
  /\ proxies' = new_proxies
  /\ px_returns' = IF new_proxies = proxies THEN px_returns ELSE <<>>
  /\ px_start' = IF new_proxies = proxies THEN px_start ELSE current_index

\* the handler becomes h, its cursor apart
PoolCall(h) ==
  /\ PoolBecomes(h.proxies)
  /\ proxy_stats' = h.proxy_stats

CallAddProxies ==
  /\ \E proxy_list \in ProxyLists :
       /\ Len(proxies) + Len(proxy_list) <= MaxPool
       /\ PoolCall(AddProxies(Handler, proxy_list))
  /\ UNCHANGED <<current_index, px_clock, fp_call,
                 fetchVars, extractVars, detectVars, summaryVars, pipelineVars>>

GotNext(strategy, r) ==
  /\ current_index' = r.current_index
  /\ px_returns' = IF strategy = "round_robin" THEN Append(px_returns, r.out)
                   ELSE px_returns

CallGetNextProxy ==
  /\ \E strategy \in Strategies, pick \in 1 .. Max({1, Len(proxies)}) :
       /\ strategy # "random" => pick = 1
       /\ strategy = "round_robin" => Len(px_returns) < MaxCalls
       /\ GotNext(strategy, GetNextProxy(Handler, strategy, pick))
  /\ UNCHANGED <<proxies, proxy_stats, px_clock, px_start, fp_call,
                 fetchVars, extractVars, detectVars, summaryVars, pipelineVars>>

\* test_proxy(proxy) when the probe gives outcome
TestProxyStep(proxy, outcome) ==
  /\ px_clock < MaxProbes
  /\ proxy_stats' = TestProxy(proxy_stats, proxy, outcome, px_clock + 1).proxy_stats
  /\ px_clock' = px_clock + 1
  /\ UNCHANGED <<proxies, current_index, px_returns, px_start, fp_call,
                 fetchVars, extractVars, detectVars, summaryVars, pipelineVars>>

CallTestProxy ==
  \E proxy \in AllProxies, outcome \in ProbeOutcomes : TestProxyStep(proxy, outcome)

CallTestAllProxies ==
  /\ px_clock + Len(proxies) <= MaxProbes
  /\ \E outcomes \in [DOMAIN proxies -> ProbeOutcomes] :
       proxy_stats' = TestAllProxies(Handler, outcomes, px_clock + 1).proxy_stats
  /\ px_clock' = px_clock + Len(proxies)
  /\ UNCHANGED <<proxies, current_index, px_returns, px_start, fp_call,
                 fetchVars, extractVars, detectVars, summaryVars, pipelineVars>>

CallRemoveProxy ==
  /\ \E proxy \in AllProxies : PoolCall(RemoveProxy(Handler, proxy))
  /\ UNCHANGED <<current_index, px_clock, fp_call,
                 fetchVars, extractVars, detectVars, summaryVars, pipelineVars>>

\* the pool and its cursor: the calls that read or change the list
RotationNext ==
  \/ CallAddProxies
  \/ CallGetNextProxy
  \/ CallRemoveProxy

SpecRotation == ProxyInit /\ [][RotationNext]_vars

\* the pool and its statistics: the calls that write proxy_stats
ProbingNext ==
  \/ CallAddProxies
  \/ CallTestProxy
  \/ CallTestAllProxies
  \/ CallRemoveProxy

SpecProbing == ProxyInit /\ [][ProbingNext]_vars

\* what a proxy source may return: no proxy, one, two, or two of which the
\* first has no scheme
Feeds == {<<>>, <<P1>>, <<P2, P3>>, <<P4, P1>>}

\* one call of fetch_free_proxies(max_proxies) on the handler, the sources
\* returning feeds
CallFetchFreeProxies ==
  /\ fp_call = <<>>
  /\ \E feeds \in [DOMAIN Sources -> Feeds], max_proxies \in 0 .. MaxWanted :
       \E r \in {FetchFreeProxies(Handler, feeds, max_proxies)} :
         /\ PoolCall(r.h)
         /\ fp_call' = <<[max_proxies |-> max_proxies, before |-> Len(proxies),
                          polled |-> r.polled]>>
  /\ UNCHANGED <<current_index, px_clock,
                 fetchVars, extractVars, detectVars, summaryVars, pipelineVars>>

\* the handler and one call that fills it from the free sources
SpecFreeProxies == ProxyInit /\ [][CallFetchFreeProxies]_vars

-----------------------------------------------------------------------------
(* The scraper's components: EmailScraper._initialize_components with       *)
(* proxy rotation on or off, then one static fetch of the pipeline          *)

\* self.session.proxies: requests.Session() is created without proxies and
\* none is set later (<<>> is no proxy, a direct connection)
SessionProxies == <<>>

\* the proxies session.get(url, timeout=self.timeout) sends the request
\* through: no proxies argument is passed, so those of the session
RequestProxies(session_proxies) == session_proxies

\* self.scraper.scrape_url(url) as the pipeline calls it, on a static scraper
PipelineRequests ==
  {req \in FetchRequests : /\ ~req.use_selenium /\ ~req.has_driver
                           /\ req.max_retries = DefaultMaxRetries
                           /\ req.sel_outcome = "ok"}

\* self.proxy_handler = ProxyHandler(use_free_proxies=True) if use_proxies,
\* free being what the proxy sources delivered
ComponentsInit ==
  /\ fetch_req \in PipelineRequests
  /\ fetch_res = <<>>
  /\ \E use_proxies \in BOOLEAN, free \in ProxyLists :
       Constructed(NewHandler(IF use_proxies THEN free ELSE <<>>))
  /\ px_clock = 0
  /\ px_returns = <<>>
  /\ px_start = 0
  /\ fp_call = <<>>
  /\ ExtractIdle /\ DetectIdle /\ SummaryIdle /\ PipelineIdle

\* one fetch of the pipeline: the result of scrape_url and the proxies its
\* requests went through; the proxy handler is not touched
PipelineScrapeUrl ==
  /\ fetch_res = <<>>
  /\ fetch_res' = <<[result |-> ScrapeUrl(fetch_req.use_selenium, fetch_req.has_driver,
                                          fetch_req.max_retries, fetch_req.outcomes,
                                          fetch_req.sel_outcome),
                     proxies |-> RequestProxies(SessionProxies)]>>
  /\ UNCHANGED <<fetch_req, extractVars, detectVars, summaryVars, pipelineVars, proxyVars>>

SpecComponents == ComponentsInit /\ [][PipelineScrapeUrl]_vars

-----------------------------------------------------------------------------
(* Properties of the Page Fetcher, under SpecFetch *)

\* the call went through _scrape_with_requests
StaticPath(req) == ~(req.use_selenium /\ req.has_driver)

IsStrictlyIncreasing(seq) ==
  \A i \in 1 .. (Len(seq) - 1) : seq[i] < seq[i + 1]

\* the endpoint answers HTTP 500 three times and would then succeed, max_retries = 3
FailsThriceThenOk(req) ==
  /\ StaticPath(req)
  /\ req.max_retries = DefaultMaxRetries
  /\ \A k \in 1 .. 3 : req.outcomes[k] = "http_error"
  /\ req.outcomes[4] = "ok"

\* C1: with max_retries = 3, a static fetch whose first three attempts fail
\* with HTTP 500 and whose next attempt would succeed ends with status success
\* after exactly 3 failed attempts (4 GETs), the sleeps between the attempts
\* being 2^attempt and strictly increasing.
C1_RetryThenSuccess ==
  \A i \in 1 .. Len(fetch_res) :
    FailsThriceThenOk(fetch_req) =>
      /\ fetch_res[i].status = "success"
      /\ fetch_res[i].attempts = 3 + 1
      /\ fetch_res[i].delays = [k \in 1 .. 3 |-> BackoffDelay(k - 1)]
      /\ IsStrictlyIncreasing(fetch_res[i].delays)

\* the exception the call ends on, stated from the script of outcomes: the
\* first attempt within max_retries that is not a RequestException, else the
\* last attempt; TypeError when no attempt is made at all
UnderlyingCause(req) ==
  IF ~StaticPath(req)
  THEN CASE req.sel_outcome = "timeout"   -> "Page load timeout"
         [] req.sel_outcome = "webdriver" -> "Selenium error"
         [] OTHER                         -> "fault"
  ELSE IF req.max_retries = 0 THEN "TypeError"
  ELSE IF \E k \in 1 .. req.max_retries : req.outcomes[k] = "fault"
  THEN "fault"
  ELSE req.outcomes[req.max_retries]

\* C2: scrape_url returns a record for every URL, mode and max_retries and
\* no exception escapes: the status is success or failed; when all static
\* attempts fail or the rendered fetch faults the status is failed and the
\* error is the underlying cause (never None); a success carries no error.
C2_NeverRaises ==
  \A i \in 1 .. Len(fetch_res) :
    LET r == fetch_res[i] IN
    /\ r.status \in {"success", "failed"}
    /\ r.status = "success" => r.error = "None"
    /\ r.status = "failed" => r.error # "None" /\ r.error = UnderlyingCause(fetch_req)
    /\ (StaticPath(fetch_req) /\ \A k \in 1 .. fetch_req.max_retries :
                                    fetch_req.outcomes[k] # "ok")
         => r.status = "failed"
    /\ (~StaticPath(fetch_req) /\ fetch_req.sel_outcome # "ok") => r.status = "failed"

\* a static fetch with max_retries = 3 whose three attempts all failed has returned
C2_Witness ==
  /\ Len(fetch_res) = 1
  /\ StaticPath(fetch_req)
  /\ fetch_req.max_retries = 3
  /\ \A k \in 1 .. 3 : fetch_req.outcomes[k] = "conn_error"
  /\ fetch_res[1].status = "failed"
  /\ fetch_res[1].error = "conn_error"

-----------------------------------------------------------------------------
(* Properties of the Email Extractor, under SpecExtract *)

PlaceholderDomains == {<<"e", "x", "a", "m", "p", "l", "e", ".", "c", "o", "m">>, <<"t", "e", "s", "t", ".", "c", "o", "m">>, <<"d", "o", "m", "a", "i", "n", ".", "c", "o", "m">>, <<"e", "m", "a", "i", "l", ".", "c", "o", "m">>}

\* an address on a placeholder domain, or on localhost, in any letter case
IsPlaceholderAddress(email) ==
  LET domain == LowerStr(DomainOf(email))
  IN domain \in PlaceholderDomains \/ domain = <<"l", "o", "c", "a", "l", "h", "o", "s", "t">>

\* C7: no address on a placeholder domain (example.com, test.com, domain.com,
\* email.com) and no localhost address appears in the output of
\* extract_emails_from_text or of extract_emails_from_html, whatever its
\* letter case on the page and whatever the context it is found in.
C7_NoPlaceholderInOutput ==
  /\ \A k \in 1 .. Len(ex_text_out) : ~IsPlaceholderAddress(ex_text_out[k])
  /\ \A k \in 1 .. Len(ex_html_out) : ~IsPlaceholderAddress(ex_html_out[k].email)

\* the tokens listed in the text of the page
TokensOf(page) == IF "tokens" \in DOMAIN page THEN page.tokens ELSE <<>>

\* the well-formed addresses among the tokens, each once, in order
WellFormedAmong(tokens) ==
  Dedup(AtIndices(tokens, {k \in DOMAIN tokens : MatchesEmailGrammar(tokens[k])}))

\* C15: extract_emails_from_text returns exactly the well-formed addresses
\* that occur in the text: tokens without a local part, a domain or a TLD
\* (user@, @domain.com, user.domain.com, user@domain, @username) are left out
\* and every well-formed address (user@domain.com, user+tag@domain.com,
\* user-name@domain.com, john@example.com) is returned
C15_ExactlyWellFormed ==
  ("text" \in ex_calls /\ TokensOf(ex_page) # <<>>) =>
    ex_text_out = WellFormedAmong(TokensOf(ex_page))

-----------------------------------------------------------------------------
(* Properties of the Social Detector, under SpecSocial *)

\* the platforms under which the detector lists the link
ListedUnder(found, link) ==
  {p \in PlatformSet : \E k \in DOMAIN found[p] : found[p][k] = link}

\* the positions, in dict order, of the platforms one of whose patterns
\* matches the link
MatchingPlatforms(link) ==
  {k \in DOMAIN Platforms : MatchesPlatform(LowerStr(link), Platforms[k])}

\* C6: detect_social_links lists every input link under exactly one platform
\* when it matches some platform pattern, namely the first platform in the
\* order linkedin, instagram, facebook, twitter, youtube whose pattern
\* matches, and under no platform otherwise; no link is listed under two.
C6_ExactlyOnePlatform ==
  \A i \in DOMAIN det_out : \A k \in DOMAIN det_links :
    ListedUnder(det_out[i], det_links[k]) =
      IF MatchingPlatforms(det_links[k]) = {} THEN {}
      ELSE {Platforms[Min(MatchingPlatforms(det_links[k]))]}

-----------------------------------------------------------------------------
(* Properties of the Result Aggregator, under SpecSummary *)

\* the set union of the emails of the records
EmailUnion(recs) == UNION {Range(recs[k].emails) : k \in DOMAIN recs}

\* the sum of the per-record email counts
RECURSIVE EmailTotal(_)
EmailTotal(recs) ==
  IF recs = <<>> THEN 0 ELSE Len(Head(recs).emails) + EmailTotal(Tail(recs))

SourceTypes(recs) == {recs[k].source_type : k \in DOMAIN recs}

\* C8: for every list of result records (main, internal and social, in any
\* mix of statuses) unique_emails_found is the cardinality of the set union of
\* the emails of all records and total_emails_found is the sum of the
\* per-record email counts.
C8_UniqueAndTotal ==
  \A i \in DOMAIN sum_out :
    /\ sum_out[i].unique_emails_found = Cardinality(EmailUnion(sum_results))
    /\ sum_out[i].total_emails_found = EmailTotal(sum_results)

\* a summary of a main, an internal and a social record that share an address
C8_Witness ==
  /\ sum_out # <<>>
  /\ SourceTypes(sum_results) = {"main", "internal", "social"}
  /\ sum_out[1].total_emails_found = 4
  /\ sum_out[1].unique_emails_found = 2

-----------------------------------------------------------------------------
(* Properties of the pipeline, under Spec *)

\* the events of the trace of the given kinds, in order
EventsOf(kinds) == AtIndices(trace, {k \in DOMAIN trace : trace[k].kind \in kinds})

\* the events of the seed at position i of the batch, in order
SeedEvents(i) ==
  AtIndices(trace, {k \in DOMAIN trace : trace[k].seed = i})

\* the records of the given source types, in order
RecordsOf(types) ==
  AtIndices(results, {k \in DOMAIN results :
                        Get(results[k], "source_type", "unknown") \in types})

UrlsOf(seq) == [k \in DOMAIN seq |-> seq[k].url]

\* scrape_from_urls is past _scrape_urls
BatchDone == pc \in {"social", "profiles", "summary", "done"}

MainRecordsAre(mains, fetches) ==
  /\ UrlsOf(mains) = SubSeq(batch, 1, Len(mains))
  /\ Len(fetches) = Len(mains)
  /\ BatchDone => Len(mains) = Len(batch)
  /\ \A k \in DOMAIN mains :
       /\ mains[k].status = (IF fetches[k].ok THEN "success" ELSE "failed")
       /\ mains[k].status = "failed" =>
            /\ "error" \in DOMAIN mains[k]
            /\ mains[k].error \notin {"None", ""}

\* C3: _scrape_urls appends exactly one record of source type main per input
\* URL, in input order, whether that URL's fetch succeeds or fails; a failed
\* fetch is recorded with status failed and an error string, and every URL
\* after it is still processed.
C3_OneMainRecordPerUrl ==
  /\ Len(RecordsOf({"main"})) <= Len(batch)
  /\ MainRecordsAre(RecordsOf({"main"}), EventsOf({"main"}))

\* a batch of two whose first URL failed and whose second URL succeeded
C3_Witness ==
  /\ pc = "done"
  /\ Len(batch) = 2
  /\ Len(RecordsOf({"main"})) = 2
  /\ RecordsOf({"main"})[1].status = "failed"
  /\ RecordsOf({"main"})[2].status = "success"

\* the events of one seed: one main fetch first; after a failed main fetch
\* nothing; explorer fetches before internal fetches, never after one
SeedEventsAre(ev) ==
  /\ ev # <<>> => ev[1].kind = "main"
  /\ \A k \in 2 .. Len(ev) : ev[k].kind \in {"explore", "internal"} /\ ev[1].ok
  /\ \A j, k \in DOMAIN ev : (j < k /\ ev[j].kind = "internal") => ev[k].kind = "internal"

\* every main and internal fetch left exactly one record, in order, and the
\* explorer's fetches left none
RecordsFollow(recs, fetches) ==
  /\ Len(recs) = Len(fetches)
  /\ \A k \in DOMAIN recs :
       /\ recs[k].url = fetches[k].url
       /\ recs[k].source_type = fetches[k].kind

\* C4: per input URL, exploration and internal fetches happen only after the
\* main fetch of that seed ended in success; a seed whose main fetch failed
\* yields exactly one record and no further fetch; the fetch of an internal
\* page never triggers exploration or further internal fetches.
C4_ExploreOnlyAfterSuccess ==
  /\ \A i \in 1 .. Len(batch) : SeedEventsAre(SeedEvents(i))
  /\ RecordsFollow(RecordsOf({"main", "internal"}), EventsOf({"main", "internal"}))
  /\ pc = "internal" =>
       UrlsOf(AtIndices(SeedEvents(idx),
                        {k \in DOMAIN SeedEvents(idx) :
                           SeedEvents(idx)[k].kind = "internal"}))
         \o pages_to_scrape = selected

\* a batch whose first seed failed and whose second seed was explored and had
\* an internal page fetched
C4_Witness ==
  /\ pc = "done"
  /\ Len(batch) = 2
  /\ Len(SeedEvents(1)) = 1
  /\ ~SeedEvents(1)[1].ok
  /\ \E k \in DOMAIN SeedEvents(2) : SeedEvents(2)[k].kind = "explore"
  /\ \E k \in DOMAIN SeedEvents(2) : SeedEvents(2)[k].kind = "internal"

\* the links of the successful main and internal records, in record order
RECURSIVE LinksOfSuccesses(_)
LinksOfSuccesses(recs) ==
  IF recs = <<>> THEN <<>>
  ELSE (IF Head(recs).status = "success" THEN Head(recs).links ELSE <<>>)
       \o LinksOfSuccesses(Tail(recs))

\* the profile fetches are the first MaxPerPlatform links of each platform
SocialFetchesAre(fetched, profiles) ==
  /\ Len(fetched) <= Len(profiles)
  /\ UrlsOf(fetched) = SubSeq(UrlsOf(profiles), 1, Len(fetched))
  /\ pc \in {"summary", "done"} => Len(fetched) = Len(profiles)

\* C5: with social scraping enabled no social-profile fetch starts before the
\* main and internal fetches of every URL of the batch have completed, and
\* classification plus social scraping is executed exactly once per batch over
\* the links pooled from all main and internal records, failed records
\* contributing no links.
C5_SocialOnceAfterAll ==
  /\ \A j, k \in DOMAIN trace :
       (j < k /\ trace[j].kind \in {"classify", "social"}) => trace[k].kind = "social"
  /\ EventsOf({"social"}) # <<>> => EventsOf({"classify"}) # <<>>
  /\ EventsOf({"classify"}) # <<>> =>
       /\ cfg.use_social_scraping
       /\ Len(EventsOf({"main"})) = Len(batch)
       /\ to_visit = <<>> /\ pages_to_scrape = <<>>
  /\ (cfg.use_social_scraping /\ pc \in {"summary", "done"}) =>
       Len(EventsOf({"classify"})) = 1
  /\ \A i \in DOMAIN social_links :
       /\ EventsOf({"social"}) = <<>> =>
            social_links[i] =
              DetectSocialLinks(LinksOfSuccesses(RecordsOf({"main", "internal"})))
       /\ SocialFetchesAre(EventsOf({"social"}),
                           ProfilesToScrape(social_links[i], MaxPerPlatform))

\* a run in which a profile linked from an internal page alone was fetched
C5_Witness ==
  /\ pc = "done"
  /\ cfg.use_social_scraping
  /\ \E k \in DOMAIN trace : trace[k].kind = "social" /\ trace[k].url = UrlFacebook
  /\ \E k \in DOMAIN results :
       /\ results[k].source_type = "internal"
       /\ results[k].status = "success"
       /\ \E j \in DOMAIN results[k].links : results[k].links[j] = UrlFacebook
  /\ \E k \in DOMAIN results : results[k].status = "failed"

\* the fraction rate equals n/d
RateIs(rate, n, d) == rate.num * d = n * rate.den

SuccessesOf(recs) == Cardinality({k \in DOMAIN recs : recs[k].status = "success"})

\* C9: the success rate is success/total*100 where total is the number of URLs
\* of the batch and success the number of them that succeeded, and is 0 when
\* total = 0 (so that it is 75 for a batch of 4 URLs of which 3 succeed).
C9_RateOverBatchUrls ==
  \A i \in DOMAIN summary :
    IF Len(batch) = 0 THEN RateIs(summary[i].success_rate, 0, 1)
    ELSE RateIs(summary[i].success_rate,
                100 * SuccessesOf(RecordsOf({"main"})), Len(batch))

\* C9, amended: the success rate is success/total*100 where total is the number
\* of result records (main, internal and social) and success the number of
\* them with status success, and is 0 when there is no record; for 4 records
\* of which 3 have status success it is exactly 75.
C9_RateOverRecords ==
  \A i \in DOMAIN summary :
    /\ IF Len(results) = 0 THEN RateIs(summary[i].success_rate, 0, 1)
       ELSE RateIs(summary[i].success_rate, 100 * SuccessesOf(results), Len(results))
    /\ (Len(results) = 4 /\ SuccessesOf(results) = 3) =>
         RateIs(summary[i].success_rate, 75, 1)

\* a batch of one URL that left 4 records of which 3 have status success
C9_Witness ==
  /\ summary # <<>>
  /\ Len(batch) = 1
  /\ Len(results) = 4
  /\ SuccessesOf(results) = 3
  /\ RateIs(summary[1].success_rate, 75, 1)

\* the position of url in the list (0 when absent)
PositionIn(list, url) ==
  IF \E k \in DOMAIN list : list[k] = url
  THEN Min({k \in DOMAIN list : list[k] = url}) ELSE 0

\* the pages of the list whose URL contains a keyword
RelevantIn(list) == {list[k] : k \in {j \in DOMAIN list : IsRelevant(LowerStr(list[j]))}}

\* the pages chosen from the discovered list under the cap n
SelectionIs(chosen, discovered, seed, n) ==
  /\ Len(chosen) <= n
  /\ \A k \in DOMAIN chosen :
       /\ chosen[k] \in RelevantIn(discovered)
       /\ Netloc(chosen[k]) = Netloc(seed)
  /\ \A j, k \in DOMAIN chosen :
       j < k => PositionIn(discovered, chosen[j]) < PositionIn(discovered, chosen[k])
  /\ \A u \in RelevantIn(discovered) \ Range(chosen) :
       /\ Len(chosen) = n
       /\ \A k \in DOMAIN chosen :
            PositionIn(discovered, chosen[k]) < PositionIn(discovered, u)

\* the URLs the explorer fetched with success for the seed at position i, in
\* the order of the fetches
Discovered(i) ==
  UrlsOf(AtIndices(trace, {k \in DOMAIN trace :
                             /\ trace[k].kind = "explore"
                             /\ trace[k].seed = i
                             /\ trace[k].ok}))

-----------------------------------------------------------------------------
(* Properties of the Proxy Manager, under SpecRotation and SpecProbing *)

\* the proxy at position i mod n of the pool (positions counted from 0)
PoolAt(i) == proxies[(i % Len(proxies)) + 1]

\* C11: on a pool that has not changed since its cursor stood at 0 (a pool
\* fixed since construction), the k-th get_next_proxy('round_robin') call
\* returns the proxy at position (k-1) mod n; on P1, P2, P3 six calls return
\* P1, P2, P3, P1, P2, P3
C11_RoundRobinOrder ==
  (px_start = 0 /\ proxies # <<>>) =>
    \A k \in DOMAIN px_returns : px_returns[k] = Returned(PoolAt(k - 1))

C11_Witness ==
  /\ proxies = <<P1, P2, P3>>
  /\ px_start = 0
  /\ px_returns = <<Returned(P1), Returned(P2), Returned(P3),
                    Returned(P1), Returned(P2), Returned(P3)>>

\* the statistics of some proxy have moved since add_proxies wrote them
StatsAdvanced == \E a \in DOMAIN proxy_stats : proxy_stats[a] # FreshStats

\* C12: with proxy rotation on and a pool that is not empty, a static fetch of
\* the pipeline goes through a proxy of the pool and the statistics of a proxy
\* advance; with an empty pool the fetch goes out directly
C12_FetchThroughProxy ==
  \A i \in 1 .. Len(fetch_res) :
    IF proxies # <<>>
    THEN fetch_res[i].proxies \in Range(proxies) /\ StatsAdvanced
    ELSE fetch_res[i].proxies = <<>>

-----------------------------------------------------------------------------
(* Properties of the Social Scraper, under SpecProfiles *)

\* the profile fetches that ended in success, in order
FetchedProfiles ==
  AtIndices(trace, {k \in DOMAIN trace : trace[k].kind = "social" /\ trace[k].ok})

\* the result a fetched profile is claimed to leave
IsResultOf(result, url) ==
  /\ result.url = url
  /\ IF WebEmails[url] # <<>>
     THEN result.status = "success" /\ result.emails = WebEmails[url]
     ELSE /\ result.status = "partial"
          /\ result.contact_info = ExtractContactInfo(PageAt(url), result.platform)

\* C13: every profile page that is fetched successfully contributes one
\* result, with status success when an email was extracted and partial with
\* the contact signals of the platform heuristic otherwise; a profile that
\* cannot be fetched contributes none
C13_ResultPerFetchedProfile ==
  /\ Len(social_results) = Len(FetchedProfiles)
  /\ \A k \in DOMAIN social_results :
       IsResultOf(social_results[k], FetchedProfiles[k].url)

\* the first n links of each platform from position k of Platforms on
RECURSIVE FirstLinks(_, _, _)
FirstLinks(found, k, n) ==
  IF k > Len(Platforms) THEN <<>>
  ELSE SubSeq(found[Platforms[k]], 1, Min({n, Len(found[Platforms[k]])}))
       \o FirstLinks(found, k + 1, n)

\* the lists of the platforms hold more links than the cap lets through
OverCap(found, n) == \E p \in PlatformSet : Len(found[p]) > n

\* C14: one call of scrape_social_emails fetches, for each platform, the first
\* max_per_platform links of its list in list order and no other profile,
\* whatever the length of the lists and the outcome of the fetches
C14_AtMostMaxPerPlatform ==
  \A i \in DOMAIN social_links :
    /\ Len(EventsOf({"social"})) <= Len(FirstLinks(social_links[i], 1, social_max))
    /\ UrlsOf(EventsOf({"social"})) \o UrlsOf(social_queue)
         = FirstLinks(social_links[i], 1, social_max)
    /\ \A p \in PlatformSet :
         Cardinality({k \in DOMAIN social_results : social_results[k].platform = p})
           <= social_max

\* a call with cap 2 on three LinkedIn links has returned after two fetches,
\* one of which failed
C14_Witness ==
  /\ pc = "summary"
  /\ social_max = 2
  /\ social_links = <<DetectSocialLinks(<<UrlLinkedIn, UrlLinkedIn, UrlLinkedIn>>)>>
  /\ Len(EventsOf({"social"})) = 2
  /\ failures = 1

-----------------------------------------------------------------------------
(* Properties of the pipeline's entry, under Spec *)

\* C16: the URLs handed to the pipeline are normalized and deduplicated after
\* normalization, so that within one batch no two main fetches target the
\* same normalized URL
C16_NoRepeatedMainFetch ==
  \A j, k \in DOMAIN trace :
    (j < k /\ trace[j].kind = "main" /\ trace[k].kind = "main")
      => CleanUrl(trace[j].url) # CleanUrl(trace[k].url)

-----------------------------------------------------------------------------
(* Properties of the proxy statistics, under SpecProbing *)

\* the counters of address a in the statistics stats, 0 without an entry
SuccessCount(stats, a) == IF a \in DOMAIN stats THEN stats[a].success_count ELSE 0
FailCount(stats, a) == IF a \in DOMAIN stats THEN stats[a].fail_count ELSE 0

\* a step in which the list of proxies gets shorter: remove_proxy of an
\* address of the pool
IsRemoval == Len(proxies') < Len(proxies)

\* C17: across add_proxies, test_proxy and test_all_proxies the success count
\* and the fail count of every address never decrease, and an address leaves
\* the pool only through remove_proxy
C17_CountsNeverDecrease ==
  [][~IsRemoval =>
       \A a \in AllProxies :
         /\ SuccessCount(proxy_stats', a) >= SuccessCount(proxy_stats, a)
         /\ FailCount(proxy_stats', a) >= FailCount(proxy_stats, a)
         /\ a \in Range(proxies) => a \in Range(proxies')]_vars

-----------------------------------------------------------------------------
(* Properties of the validator, under SpecValidator *)

\* the candidate passes the three rejecting rules of _is_valid_email
PassesRules(email) ==
  Len(email) >= 5 /\ ~MatchesFalsePositive(email) /\ MatchesEmailGrammar(email)

\* C18: _is_valid_email accepts exactly the candidates of length at least 5
\* that match no placeholder pattern and match the anchored grammar, whatever
\* the source URL and whether or not the domain is a trusted provider; the
\* suspicious patterns reject nothing
C18_AcceptsAfterThreeRules ==
  val_res # <<>> => (val_res[1] <=> PassesRules(val_req.email))

\* an address with a suspicious pattern, on a domain that is neither trusted
\* nor the domain of the source page, is accepted
C18_Witness ==
  /\ val_res = <<TRUE>>
  /\ HasSuspiciousPatterns(val_req.email)
  /\ DomainOf(val_req.email) \notin TrustedDomains
  /\ val_req.source_url = <<"h", "t", "t", "p", "s", ":", "/", "/", "o", "t", "h", "e", "r", ".", "o", "r", "g", "/">>
  /\ ~DomainMatchesUrl(DomainOf(val_req.email), LowerStr(Netloc(val_req.source_url)))

-----------------------------------------------------------------------------
(* Properties of the order of the extractor's output, under SpecExtract *)

\* the (email, context) pairs the three scans of a page give, in the order
\* of the scans: text content, mailto links, data attributes
Scanned(page, base_url) ==
  WithContext(ExtractEmailsFromText(page.text, base_url), <<"t", "e", "x", "t", "_", "c", "o", "n", "t", "e", "n", "t">>)
  \o ExtractMailtoEmails(page.hrefs, base_url)
  \o ExtractDataAttributeEmails(page.attrs, base_url)

\* the position in pairs of the first pair with the email e
FirstAt(pairs, e) == Min({i \in DOMAIN pairs : pairs[i].email = e})

\* out lists every email of scanned, each as its first pair in scanned, in
\* the order of these first pairs
FirstOccurrences(out, scanned) ==
  /\ {out[k].email : k \in DOMAIN out} = {scanned[i].email : i \in DOMAIN scanned}
  /\ \A k \in DOMAIN out : out[k] = scanned[FirstAt(scanned, out[k].email)]
  /\ \A j, k \in DOMAIN out :
       j < k => FirstAt(scanned, out[j].email) < FirstAt(scanned, out[k].email)

-----------------------------------------------------------------------------
(* Properties of the explorer, under SpecExplorer *)

\* the URLs the explorer has fetched so far
ExploredUrls == {trace[k].url : k \in DOMAIN trace}

\* C20: every URL the explorer fetches or returns has the scheme://host of
\* the seed URL
C20_SameOriginAsSeed ==
  \A u \in ExploredUrls \cup Range(internal_links) : Origin(u) = Origin(batch[1])

-----------------------------------------------------------------------------
(* Properties of the traversal, under SpecExplorerFair *)

\* no URL is fetched twice, no fetch is deeper than max_depth, and the
\* depths of the fetches do not decrease
FetchesInOrder(events, limit) ==
  /\ \A j, k \in DOMAIN events : j < k => events[j].url # events[k].url
  /\ \A k \in DOMAIN events : events[k].depth <= limit
  /\ \A j, k \in DOMAIN events : j < k => events[j].depth <= events[k].depth

\* the entries a step appends to the queue: those after the tail of the old
\* queue
Enqueued == SubSeq(to_visit', Len(to_visit), Len(to_visit'))

\* C21: a URL is enqueued only if it is not visited and its depth is at most
\* max_depth; no URL is fetched twice, none at a depth above max_depth, the
\* fetches come in non-decreasing depth, and the traversal ends
C21_BoundedTraversal ==
  /\ [][\A k \in DOMAIN Enqueued :
          Enqueued[k].url \notin visited' /\ Enqueued[k].depth <= max_depth_arg]_vars
  /\ []FetchesInOrder(trace, max_depth_arg)
  /\ <>(to_visit = <<>>)

\* a traversal to depth 2 of the cycle between the seed and its pages has
\* ended: a page queued twice was fetched once
C21_Witness ==
  /\ to_visit = <<>>
  /\ max_depth_arg = 2
  /\ batch = <<UrlAcme>>
  /\ Len(trace) = 4
  /\ trace[4].depth = 1
  /\ set_order = "backward"

-----------------------------------------------------------------------------
(* Properties of a failed fetch of the explorer, under SpecExplorerFair *)

\* the step is a fetch of the explorer that failed
FailedVisit == Len(trace') = Len(trace) + 1 /\ ~trace'[Len(trace')].ok

\* the URLs of the explorer's fetches that succeeded, in order
FetchedOk ==
  UrlsOf(AtIndices(trace, {k \in DOMAIN trace : trace[k].ok}))

\* the URLs in the queue
QueuedUrls == {to_visit[k].url : k \in DOMAIN to_visit}

\* the links of the seed's netloc on the page of event e, when the page was
\* fetched above max_depth
LinksFollowed(e) ==
  IF e.ok /\ e.depth < max_depth_arg
  THEN {u \in Range(WebLinks[set_order][e.url]) : Netloc(u) = Netloc(batch[1])}
  ELSE {}

\* every link of a fetched page is visited or waits in the queue
NothingLost ==
  \A k \in DOMAIN trace : LinksFollowed(trace[k]) \subseteq visited \cup QueuedUrls

\* C22: a node whose fetch fails adds nothing to the queue and is not in the
\* returned list; the rest of the queue is left as it is, the links of the
\* fetched pages stay queued until they are visited, and the traversal goes
\* on to its end
C22_FailureIsLeaf ==
  /\ [][FailedVisit => to_visit' = Tail(to_visit) /\ internal_links' = internal_links]_vars
  /\ [](internal_links = FetchedOk /\ NothingLost)
  /\ (failures > 0) ~> (to_visit = <<>>)

\* the fetch of a page of the seed failed and the page queued after it was
\* fetched
C22_Witness ==
  /\ Len(trace) = 3
  /\ trace[1].ok /\ ~trace[2].ok /\ trace[3].ok
  /\ internal_links = <<trace[1].url, trace[3].url>>

-----------------------------------------------------------------------------
(* Properties of one probe, under SpecProbing *)

\* new is old/n-th running mean: (old * (n - 1) + response_time) / n, for
\* fractions
IsRunningMean(new, old, n, response_time) ==
  new.num * (old.den * n) = (old.num * (n - 1) + response_time * old.den) * new.den

\* the entry after of a proxy whose probe gave outcome, against its entry
\* before
ProbeEffect(before, after, outcome) ==
  IF outcome.status = "ok"
  THEN /\ after.success_count = before.success_count + 1
       /\ after.fail_count = before.fail_count
       /\ IsRunningMean(after.avg_response_time, before.avg_response_time,
                        after.success_count, outcome.response_time)
  ELSE /\ after.fail_count = before.fail_count + 1
       /\ after.success_count = before.success_count
       /\ after.avg_response_time = before.avg_response_time
       /\ after.last_used = before.last_used

\* the statistics after a probe of proxy, against the statistics before
StatsEffect(before, after, proxy, outcome) ==
  /\ proxy \in DOMAIN before
  /\ DOMAIN after = DOMAIN before
  /\ \A a \in DOMAIN before \ {proxy} : after[a] = before[a]
  /\ ProbeEffect(before[proxy], after[proxy], outcome)

\* C23: test_proxy on a pool member adds 1 to its fail count and nothing
\* else when the probe fails, adds 1 to its success count and folds the
\* response time into the running mean when it succeeds, and leaves the
\* statistics of every other proxy as they are
C23_ProbeUpdatesOneEntry ==
  [][\A proxy \in Range(proxies), outcome \in ProbeOutcomes :
       TestProxyStep(proxy, outcome)
         => StatsEffect(proxy_stats, proxy_stats', proxy, outcome)]_vars

-----------------------------------------------------------------------------
(* Properties of fetch_free_proxies, under SpecFreeProxies *)

\* the names of the sources polled, in order
PolledSources(call) == [k \in DOMAIN call.polled |-> call.polled[k].source]

\* C24: fetch_free_proxies polls its sources in the order of the list, polls
\* no further source once the pool holds max_proxies addresses, and adds at
\* most max_proxies proxies to the pool
C24_StopsAtMaxProxies ==
  \A i \in DOMAIN fp_call :
    /\ PolledSources(fp_call[i]) = SubSeq(Sources, 1, Len(fp_call[i].polled))
    /\ \A k \in 2 .. Len(fp_call[i].polled) :
         fp_call[i].polled[k].pool < fp_call[i].max_proxies
    /\ Len(proxies) - fp_call[i].before <= fp_call[i].max_proxies

-----------------------------------------------------------------------------
(* Properties of the pool's bookkeeping, under SpecRotation and SpecProbing *)

\* C25: whenever the pool is not empty the round-robin cursor is a position
\* of the list, and no round_robin call fails
C25_CursorInRange ==
  /\ proxies # <<>> => (0 <= current_index /\ current_index < Len(proxies))
  /\ \A k \in DOMAIN px_returns : px_returns[k].raised = ""

\* C26: every address of the pool list has a statistics entry
C26_PoolHasStats == \A k \in DOMAIN proxies : proxies[k] \in DOMAIN proxy_stats

-----------------------------------------------------------------------------
(* Properties of the summary's counts, under Spec *)

\* the sum of the values of a function to the naturals
RECURSIVE SumOver(_, _)
SumOver(f, keys) ==
  IF keys = {} THEN 0
  ELSE f[CHOOSE k \in keys : TRUE]
       + SumOver(f, keys \ {CHOOSE k \in keys : TRUE})

\* the counts of the summary s add up for the records recs
CountsAddUp(s, recs) ==
  /\ s.total_urls_processed = s.successful_scrapes + s.failed_scrapes
  /\ \A k \in DOMAIN recs : Get(recs[k], "status", "None") \in {"success", "failed"}
  /\ SumOver(s.emails_by_source, DOMAIN s.emails_by_source) = s.total_urls_processed

\* C27: in every summary total_urls_processed = successful_scrapes +
\* failed_scrapes, every aggregated record has status success or failed, and
\* the counts by source type sum to the same total
C27_CountsAddUp ==
  \A i \in DOMAIN summary : CountsAddUp(summary[i], results)

-----------------------------------------------------------------------------
(* Properties of the fetches of one batch, under Spec *)

\* no two events of the list have the same URL
DistinctUrls(events) ==
  \A j, k \in DOMAIN events : j < k => events[j].url # events[k].url

\* C28: within one batch no social profile URL is fetched more than once
C28_ProfileFetchedOnce == DistinctUrls(EventsOf({"social"}))


\* C29: the seed URL is not scraped again as an internal page of its own
\* exploration
C29_SeedNotInternal ==
  \A k \in DOMAIN trace :
    trace[k].kind = "internal" => trace[k].url # batch[trace[k].seed]

-----------------------------------------------------------------------------
(* Properties of the placeholder rule, under SpecValidator *)

\* a well-formed address of length 5 or more that is neither on a placeholder
\* domain nor on a localhost host
WellFormedElsewhere(email) ==
  /\ Len(email) >= 5
  /\ MatchesEmailGrammar(email)
  /\ ~IsPlaceholderAddress(email)
  /\ ~Contains(email, <<"@", "l", "o", "c", "a", "l", "h", "o", "s", "t">>)

\* C30: the placeholder rule rejects an address only when its domain is one
\* of example.com, test.com, domain.com, email.com or it is a localhost
\* address; a well-formed address on a domain that merely ends with one of
\* these names is accepted
C30_RejectsExactDomainsOnly ==
  (val_res # <<>> /\ WellFormedElsewhere(val_req.email)) => val_res[1]

=============================================================================
